---- MODULE Spec2Model ----
(***************************************************************************)
(* Attacker personas: the campaign execution engine                        *)
(* (agent_bounty/agents/red_team_agent_v2.py) driven by behavioural        *)
(* profiles (agent_bounty/attacker_personas/persona.py).                   *)
(*                                                                         *)
(* Python objects are modelled with identity: every campaign dict lives in *)
(* `heap`, and current_campaign / attack_history hold references into it,  *)
(* exactly as the agent keeps the same dict in both places.                *)
(*                                                                         *)
(* Probabilities are exact integers in units of 1/PROB_SCALE; a draw of    *)
(* random.random() is an integer number of thousandths.                    *)
(***************************************************************************)
EXTENDS Integers, Sequences, FiniteSets, TLC

VARIABLES persona_library, mitre_client, persona, attack_history, current_campaign, heap,
          pc, idx, auto_execute, returned, clock,
          executed, stealth_calls, unit

vars == <<persona_library, mitre_client, persona, attack_history, current_campaign, heap,
          pc, idx, auto_execute, returned, clock,
          executed, stealth_calls, unit>>

(***************************************************************************)
(* Bounds                                                                  *)
(***************************************************************************)
\* number of campaigns one agent runs in SpecHistory
MaxRuns == 2
\* number of phases one agent plans in SpecHistory, over all its campaigns
MaxPlanned == 1
\* last second of the wall clock
MaxClock == 1

(***************************************************************************)
(* Values                                                                  *)
(***************************************************************************)
\* None where a dict is expected
None == [none |-> TRUE]

\* None where a string is expected
NoneStr == "None"

\* None where a reference to a campaign dict is expected
NullRef == 0

PROB_SCALE == 100000

\* values random.random() returns, in thousandths
Draws == {0, 250, 500, 999}

\* values random.randint(1, 100) returns
ExfilAmounts == {1, 37, 100}

Targets == {"192.168.1.0/24"}

Scenarios == {"full_chain", "ransomware", "other"}

Range(s) == {s[i] : i \in 1..Len(s)}

\* AttackStatus
PLANNED == "planned"
SUCCESS == "success"
FAILED == "failed"
BLOCKED == "blocked"

\* kill_chain_phases of a technique classified under the given tactics
KillChain(tactics) ==
    [i \in 1..Len(tactics) |->
        [kill_chain_name |-> "mitre-attack", phase_name |-> tactics[i]]]

\* a technique dict as get_techniques_for_group returns it; the key
\* external_id is present only when the attack-pattern has a mitre-attack
\* external reference
Technique(name, tactics) ==
    [name |-> name, kill_chain_phases |-> KillChain(tactics)]

TechniqueWithId(name, ext, tactics) ==
    Technique(name, tactics) @@ [external_id |-> ext]

SpearphishingLink == TechniqueWithId("Spearphishing Link", "T1566.002", <<"initial-access">>)
SpearphishingAttachment == TechniqueWithId("Spearphishing Attachment", "T1566.001", <<"initial-access">>)
ExfilOverC2 == TechniqueWithId("Exfiltration Over C2 Channel", "T1041", <<"exfiltration">>)
\* an attack-pattern without a mitre-attack external reference
CustomImplant == Technique("Custom Implant", <<"persistence">>)

\* the personas the library can resolve, by name
Personas ==
    [APT_A |->
        [name |-> "APT_A", mitre_id |-> "G0001",
         tactics |-> <<"exfiltration", "initial-access">>,
         techniques |-> <<SpearphishingLink, SpearphishingAttachment, ExfilOverC2>>,
         sophistication_level |-> "high", stealth_preference |-> "balanced",
         technique_success_rate |-> 80],
     APT_B |->
        [name |-> "APT_B", mitre_id |-> "G0002",
         tactics |-> <<"impact", "initial-access">>,
         techniques |-> <<SpearphishingAttachment, SpearphishingLink>>,
         sophistication_level |-> "advanced", stealth_preference |-> "stealthy",
         technique_success_rate |-> 70],
     CUSTOM |->
        [name |-> "CUSTOM", mitre_id |-> "C0000",
         tactics |-> <<"persistence">>,
         techniques |-> <<CustomImplant>>,
         sophistication_level |-> "low", stealth_preference |-> "noisy",
         technique_success_rate |-> 50],
     EMPTY |->
        [name |-> "EMPTY", mitre_id |-> "C0001",
         tactics |-> <<>>,
         techniques |-> <<>>,
         sophistication_level |-> "medium", stealth_preference |-> "balanced",
         technique_success_rate |-> 70]]

PersonaNames == DOMAIN Personas

\* names handed to set_persona; "Nobody" resolves to nothing
Names == {"APT_A", "APT_B", "CUSTOM", "Nobody"}

\* names and scenarios handed to the agent that runs several campaigns
HistoryNames == {"CUSTOM", "EMPTY", "Nobody"}
HistoryScenarios == {"full_chain"}

(***************************************************************************)
(* persona.py                                                              *)
(***************************************************************************)
\* tech.get('external_id', default)
GetExternalId(tech, default) ==
    IF "external_id" \in DOMAIN tech THEN tech.external_id ELSE default

\* the inner loop of select_technique_for_tactic: some kill-chain phase of
\* the technique is (mitre-attack, tactic)
ClassifiedUnder(tech, tactic) ==
    \E i \in 1..Len(tech.kill_chain_phases) :
        /\ tech.kill_chain_phases[i].kill_chain_name = "mitre-attack"
        /\ tech.kill_chain_phases[i].phase_name = tactic

\* Matching without the test against the exclude list
MatchingIgnoringExclude(p, tactic, exclude) ==
    SelectSeq(p.techniques, LAMBDA tech : ClassifiedUnder(tech, tactic))

\* the list `matching` of select_technique_for_tactic
Matching(p, tactic, exclude) ==
    SelectSeq(p.techniques,
              LAMBDA tech : /\ ClassifiedUnder(tech, tactic)
                            /\ GetExternalId(tech, NoneStr) \notin exclude)

\* select_technique_for_tactic taking the last match for every persona
SelectLastMatch(p, tactic, exclude) ==
    LET matching == Matching(p, tactic, exclude) IN
    IF matching = <<>> THEN {} ELSE {matching[Len(matching)]}

\* select_technique_for_tactic: the set of values it can return; the empty
\* set stands for the return value None
select_technique_for_tactic(p, tactic, exclude) ==
    LET matching == Matching(p, tactic, exclude) IN
    IF matching = <<>> THEN {}
    ELSE IF p.sophistication_level = "advanced" THEN Range(matching)
    ELSE {matching[1]}

tactic_order(p, scenario) ==
    CASE scenario = "full_chain" ->
            <<"reconnaissance", "initial-access", "execution", "persistence",
              "privilege-escalation", "defense-evasion", "credential-access",
              "discovery", "lateral-movement", "collection",
              "command-and-control", "exfiltration", "impact">>
      [] scenario = "ransomware" ->
            <<"initial-access", "execution", "privilege-escalation",
              "defense-evasion", "discovery", "lateral-movement", "impact">>
      [] scenario = "data_theft" ->
            <<"initial-access", "execution", "persistence",
              "credential-access", "discovery", "collection", "exfiltration">>
      [] OTHER -> p.tactics

RECURSIVE ChainsFrom(_, _, _)
\* the loop of get_attack_chain from position i of the tactic order: the
\* set of chains it can build
ChainsFrom(p, order, i) ==
    IF i > Len(order) THEN {<<>>}
    ELSE LET tactic == order[i]
             rest == ChainsFrom(p, order, i + 1)
             technique == select_technique_for_tactic(p, tactic, {})
         IN IF tactic \notin Range(p.tactics) THEN rest
            ELSE IF technique = {} THEN rest
            ELSE {<<[tactic |-> tactic,
                     technique_id |-> GetExternalId(t, ""),
                     technique_name |-> t.name]>> \o r :
                    t \in technique, r \in rest}

\* get_attack_chain walking the persona's own tactics for every scenario
ChainOfOwnTactics(p, scenario) == ChainsFrom(p, p.tactics, 1)

get_attack_chain(p, scenario) == ChainsFrom(p, tactic_order(p, scenario), 1)

\* should_use_stealth_technique for the draw r
should_use_stealth_technique(p, r) ==
    IF p.stealth_preference = "stealthy" THEN r < 900
    ELSE IF p.stealth_preference = "balanced" THEN r < 500
    ELSE r < 100

to_dict(p) ==
    [name |-> p.name, mitre_id |-> p.mitre_id, tactics |-> p.tactics,
     technique_count |-> Len(p.techniques),
     technique_ids |-> [i \in 1..Len(p.techniques) |->
                            GetExternalId(p.techniques[i], "")],
     sophistication |-> p.sophistication_level,
     stealth |-> p.stealth_preference]

(***************************************************************************)
(* red_team_agent_v2.py: probabilities and one phase                       *)
(***************************************************************************)
Min(a, b) == IF a < b THEN a ELSE b

\* a draw r (thousandths) is below the probability prob (1/PROB_SCALE)
Below(r, prob) == r * (PROB_SCALE \div 1000) < prob

\* sophistication_modifiers, in tenths
SophisticationModifier(level) ==
    CASE level = "low" -> 8
      [] level = "medium" -> 9
      [] level = "high" -> 10
      [] level = "advanced" -> 11
      [] OTHER -> 10

\* _calculate_success_probability without the cap at 95%
SuccessProbabilityUncapped(p, phase) ==
    LET base_prob == p.technique_success_rate * SophisticationModifier(p.sophistication_level)
        difficult == phase.tactic \in {"privilege-escalation", "defense-evasion", "persistence"}
    IN base_prob * (IF difficult THEN 85 ELSE 100)

\* _calculate_success_probability: rate (1/100) * modifier (1/10) * 0.85
_calculate_success_probability(p, phase) ==
    LET base_prob == p.technique_success_rate * SophisticationModifier(p.sophistication_level)
        difficult == phase.tactic \in {"privilege-escalation", "defense-evasion", "persistence"}
    IN Min(base_prob * (IF difficult THEN 85 ELSE 100), 95000)

\* _calculate_detection_probability: 0.3 * stealth * visibility * stealth_mode
_calculate_detection_probability(p, phase) ==
    LET stealth == IF p.stealth_preference = "stealthy" THEN 5
                   ELSE IF p.stealth_preference = "noisy" THEN 15 ELSE 10
        visible == IF phase.tactic \in {"impact", "exfiltration", "lateral-movement"}
                   THEN 13 ELSE 10
        mode == IF phase.stealth_mode THEN 6 ELSE 10
    IN Min(3 * stealth * visible * mode * 10, 90000)

\* PhaseStatus with the block applied to failed phases only
PhaseStatusKeepsSuccess(success, detected, r3) ==
    IF success THEN SUCCESS
    ELSE IF detected /\ r3 < 300 THEN BLOCKED ELSE FAILED

\* the status of a phase result: SUCCESS or FAILED by the success draw,
\* overridden by BLOCKED when detected and the block draw r3 is below 0.3
PhaseStatus(success, detected, r3) ==
    IF detected /\ r3 < 300 THEN BLOCKED
    ELSE IF success THEN SUCCESS ELSE FAILED

DetectionEvent(phase) ==
    [phase |-> phase.tactic, technique |-> phase.technique_id,
     severity |-> IF phase.tactic \in {"impact", "exfiltration"}
                  THEN "high" ELSE "medium"]

\* ObjectiveOf with a name for persistence that the metrics do not look for
ObjectiveOfMisnamed(tactic) ==
    IF tactic = "initial-access" THEN <<"initial_access">>
    ELSE IF tactic = "persistence" THEN <<"persistence">>
    ELSE IF tactic = "exfiltration" THEN <<"data_exfiltrated">>
    ELSE <<>>

\* the objective a successful phase of the tactic completes, as a sequence
ObjectiveOf(tactic) ==
    IF tactic = "initial-access" THEN <<"initial_access">>
    ELSE IF tactic = "persistence" THEN <<"persistence_established">>
    ELSE IF tactic = "exfiltration" THEN <<"data_exfiltrated">>
    ELSE <<>>

\* TrackSuccess testing for "not failed" instead of "success"
TrackUnlessFailed(campaign, phase, status, mb) ==
    IF status # FAILED
    THEN [campaign EXCEPT
            !.techniques_used = Append(@, phase.technique_id),
            !.objectives_completed = @ \o ObjectiveOf(phase.tactic),
            !.data_exfiltrated = IF phase.tactic = "exfiltration" THEN @ + mb ELSE @]
    ELSE campaign

\* the bookkeeping of _execute_phase for a phase that ended with `status`
TrackSuccess(campaign, phase, status, mb) ==
    IF status = SUCCESS
    THEN [campaign EXCEPT
            !.techniques_used = Append(@, phase.technique_id),
            !.objectives_completed = @ \o ObjectiveOf(phase.tactic),
            !.data_exfiltrated = IF phase.tactic = "exfiltration" THEN @ + mb ELSE @]
    ELSE campaign

\* _execute_phase recording a detection event only for a phase that was
\* blocked
ExecutePhaseEventWhenBlocked(campaign, phase, target, ps, pd, r1, r2, r3, mb) ==
    LET success == Below(r1, ps)
        detected == Below(r2, pd)
        status == PhaseStatus(success, detected, r3)
        result == [tactic |-> phase.tactic,
                   technique_id |-> phase.technique_id,
                   technique_name |-> phase.technique_name,
                   target |-> target,
                   status |-> status,
                   detected |-> detected]
        seen == IF status = BLOCKED
                THEN [campaign EXCEPT !.detection_events = Append(@, DetectionEvent(phase))]
                ELSE campaign
    IN [result |-> result, campaign |-> TrackSuccess(seen, phase, status, mb)]

\* _execute_phase on the campaign dict, with success probability ps,
\* detection probability pd, the draws r1, r2, r3 of random.random() and the
\* draw mb of random.randint(1, 100): the result and the campaign afterwards
_execute_phase(campaign, phase, target, ps, pd, r1, r2, r3, mb) ==
    LET success == Below(r1, ps)
        detected == Below(r2, pd)
        status == PhaseStatus(success, detected, r3)
        result == [tactic |-> phase.tactic,
                   technique_id |-> phase.technique_id,
                   technique_name |-> phase.technique_name,
                   target |-> target,
                   status |-> status,
                   detected |-> detected]
        seen == IF detected
                THEN [campaign EXCEPT !.detection_events = Append(@, DetectionEvent(phase))]
                ELSE campaign
    IN [result |-> result, campaign |-> TrackSuccess(seen, phase, status, mb)]

\* the exclude list _get_alternative_technique passes on
AlternativeExclude(original_phase) == {original_phase.technique_id}

\* _get_alternative_technique: the set of phases it can return; the empty
\* set stands for None
_get_alternative_technique(p, original_phase) ==
    {[tactic |-> original_phase.tactic,
      technique_id |-> GetExternalId(alternative, ""),
      technique_name |-> alternative.name,
      stealth_mode |-> TRUE] :
        alternative \in select_technique_for_tactic(
                            p, original_phase.tactic,
                            AlternativeExclude(original_phase))}

\* _generate_persona_attack_plan for one chain and one stealth draw per phase
_generate_persona_attack_plan(p, chain, draws) ==
    [i \in 1..Len(chain) |->
        [tactic |-> chain[i].tactic,
         technique_id |-> chain[i].technique_id,
         technique_name |-> chain[i].technique_name,
         stealth_mode |-> should_use_stealth_technique(p, draws[i])]]

(***************************************************************************)
(* red_team_agent_v2.py: metrics and report                                *)
(***************************************************************************)
\* sum(1 for p in phases if p.get('status') == AttackStatus.SUCCESS)
SuccessfulPhases(phases) ==
    Len(SelectSeq(phases, LAMBDA ph : ph.status = SUCCESS))

\* sum(1 for p in phases if p.get('detected', False))
DetectedPhases(phases) ==
    Len(SelectSeq(phases, LAMBDA ph : "detected" \in DOMAIN ph /\ ph.detected))

\* n / d if d > 0 else 0, kept as an exact fraction
Rate(n, d) == IF d > 0 THEN [num |-> n, den |-> d] ELSE [num |-> 0, den |-> 1]

\* `objectives` of _calculate_campaign_metrics
ObjectivesAchieved(campaign) ==
    [initial_access |-> "initial_access" \in Range(campaign.objectives_completed),
     persistence |-> "persistence_established" \in Range(campaign.objectives_completed),
     data_theft |-> "data_exfiltrated" \in Range(campaign.objectives_completed),
     lateral_movement |->
        \E i \in 1..Len(campaign.phases) :
            /\ campaign.phases[i].status = SUCCESS
            /\ campaign.phases[i].tactic = "lateral-movement"]

\* RiskScore with the detection adjustment added instead of taken off
RiskScorePenaltyAdded(objectives, detection_rate) ==
    LET points == (IF objectives.initial_access THEN 20 ELSE 0)
                + (IF objectives.persistence THEN 25 ELSE 0)
                + (IF objectives.data_theft THEN 30 ELSE 0)
                + (IF objectives.lateral_movement THEN 25 ELSE 0)
    IN (points * (10 * detection_rate.den + 3 * detection_rate.num))
            \div (10 * detection_rate.den)

\* min(int(risk_score * (1 - detection_rate * 0.3)), 100)
RiskScore(objectives, detection_rate) ==
    LET points == (IF objectives.initial_access THEN 20 ELSE 0)
                + (IF objectives.persistence THEN 25 ELSE 0)
                + (IF objectives.data_theft THEN 30 ELSE 0)
                + (IF objectives.lateral_movement THEN 25 ELSE 0)
        scaled == (points * (10 * detection_rate.den - 3 * detection_rate.num))
                    \div (10 * detection_rate.den)
    IN Min(scaled, 100)

\* _calculate_campaign_metrics dividing by the number of planned phases
MetricsOverPlan(campaign) ==
    LET total_phases == Len(campaign.attack_plan)
        successful_phases == SuccessfulPhases(campaign.phases)
        detected_phases == DetectedPhases(campaign.phases)
        detection_rate == Rate(detected_phases, total_phases)
        objectives == ObjectivesAchieved(campaign)
    IN [success_rate |-> Rate(successful_phases, total_phases),
        detection_rate |-> detection_rate,
        objectives_achieved |-> objectives,
        risk_score |-> RiskScore(objectives, detection_rate)] @@ campaign

\* _calculate_campaign_metrics: the campaign dict with the four metric keys
_calculate_campaign_metrics(campaign) ==
    LET total_phases == Len(campaign.phases)
        successful_phases == SuccessfulPhases(campaign.phases)
        detected_phases == DetectedPhases(campaign.phases)
        detection_rate == Rate(detected_phases, total_phases)
        objectives == ObjectivesAchieved(campaign)
    IN [success_rate |-> Rate(successful_phases, total_phases),
        detection_rate |-> detection_rate,
        objectives_achieved |-> objectives,
        risk_score |-> RiskScore(objectives, detection_rate)] @@ campaign

\* the campaign generate_attack_report reports on: the first campaign of the
\* history with the id, or the current campaign when no id is given
ReportedCampaign(campaign_id) ==
    IF campaign_id # None
    THEN LET hits == {i \in 1..Len(attack_history) :
                        heap[attack_history[i]].id = campaign_id}
         IN IF hits = {} THEN NullRef
            ELSE attack_history[CHOOSE i \in hits : \A j \in hits : i <= j]
    ELSE current_campaign

\* generate_attack_report (the fields that are copied from the campaign)
generate_attack_report(campaign_id) ==
    LET ref == ReportedCampaign(campaign_id) IN
    IF ref = NullRef THEN [error |-> "No campaign found"]
    ELSE LET campaign == heap[ref] IN
         [campaign_id |-> campaign.id,
          persona |-> campaign.persona.name,
          mitre_id |-> campaign.persona.mitre_id,
          target |-> campaign.target,
          techniques_used |-> campaign.techniques_used,
          risk_score |-> campaign.risk_score,
          data_exfiltrated_mb |-> campaign.data_exfiltrated,
          objectives_achieved |-> campaign.objectives_achieved]

(***************************************************************************)
(* The agent                                                               *)
(***************************************************************************)
\* PersonaLibrary.get_persona as the agent sees it: the persona, or None
\* when the lookup raises
get_persona(name) == IF name \in PersonaNames THEN Personas[name] ELSE None

\* NewCampaignRef clearing and refilling the dict of the previous campaign
ReuseCampaignRef(h, current) == IF current # NullRef THEN current ELSE Len(h) + 1

\* the reference of the dict the literal at the start of a campaign creates
NewCampaignRef(h, current) == Len(h) + 1

\* the heap after the object `ref` is (re)written
Store(h, ref, obj) ==
    IF ref = Len(h) + 1 THEN Append(h, obj) ELSE [h EXCEPT ![ref] = obj]

\* f"campaign_{now:%Y%m%d_%H%M%S}": one id per second of the clock
CampaignId(now) == [campaign |-> now]

\* the campaign dict execute_attack_campaign builds before the loop
NewCampaign(p, target, scenario, now, attack_plan) ==
    [id |-> CampaignId(now),
     persona |-> to_dict(p),
     target |-> target,
     scenario |-> scenario,
     start_time |-> now,
     status |-> "active",
     phases |-> <<>>,
     techniques_used |-> <<>>,
     objectives_completed |-> <<>>,
     detection_events |-> <<>>,
     data_exfiltrated |-> 0,
     attack_plan |-> attack_plan]

\* NeedsRetry for blocked phases only
NeedsRetryBlockedOnly(status) == status = BLOCKED

\* the condition on a phase result under which the loop considers a retry
NeedsRetry(status) == status \in {BLOCKED, FAILED}

\* `if alt_phase:` on the value of _get_alternative_technique
AlternativeFound(alternatives) == alternatives # {}

\* AppendAlternative putting the result in the place of the phase it retries
ReplaceWithAlternative(phases, alt_result) ==
    [phases EXCEPT ![Len(phases)] = alt_result]

\* the phases list after the result of an alternative phase is recorded
AppendAlternative(phases, alt_result) == Append(phases, alt_result)

\* PlannedEntry with the status of a phase under execution
PlannedEntryInProgress(phase) == [phase |-> phase, status |-> "in_progress"]

\* the entry the loop records for a phase that is planned, not executed
PlannedEntry(phase) == [phase |-> phase, status |-> PLANNED]

\* the planned phase the loop of execute_attack_campaign is at
CurrentPhase == heap[current_campaign].attack_plan[idx]

\* what the last call gave back
Raised(message) == [raised |-> message]
Returned(value) == [value |-> value]
ReturnedCampaign(ref) == [campaign |-> ref]

Init ==
    /\ persona = None
    /\ attack_history = <<>>
    /\ current_campaign = NullRef
    /\ heap = <<>>
    /\ pc = "idle"
    /\ idx = 0
    /\ auto_execute = FALSE
    /\ returned = None
    /\ clock = 0
    /\ executed = <<>>
    /\ stealth_calls = <<>>
    /\ mitre_client = None
    /\ persona_library = None
    /\ unit = None

\* set_persona(persona_name)
SetPersona(persona_name) ==
    /\ pc = "idle"
    /\ LET found == get_persona(persona_name) IN
       IF found = None
       THEN /\ returned' = Raised("Unknown persona")
            /\ UNCHANGED persona
       ELSE /\ returned' = None
            /\ persona' = found
    /\ UNCHANGED <<persona_library, mitre_client, attack_history, current_campaign, heap, pc, idx,
                   auto_execute, clock, executed, stealth_calls, unit>>

\* ExecuteWithoutPersona with the check made after the campaign dict is set up
ExecuteWithoutPersonaLate ==
    /\ pc = "idle"
    /\ persona = None
    /\ current_campaign' = NewCampaignRef(heap, current_campaign)
    /\ heap' = Store(heap, NewCampaignRef(heap, current_campaign),
                     [id |-> CampaignId(clock), persona |-> None, status |-> "active",
                      phases |-> <<>>, attack_plan |-> <<>>])
    /\ returned' = Raised("No persona set")
    /\ UNCHANGED <<persona_library, mitre_client, persona, attack_history, pc, idx,
                   auto_execute, clock, executed, stealth_calls, unit>>

\* execute_attack_campaign with no persona: the ValueError
ExecuteWithoutPersona ==
    /\ pc = "idle"
    /\ persona = None
    /\ returned' = Raised("No persona set")
    /\ UNCHANGED <<persona_library, mitre_client, persona, attack_history, current_campaign, heap, pc, idx,
                   auto_execute, clock, executed, stealth_calls, unit>>

\* execute_attack_campaign up to the loop: the campaign dict and the plan
StartCampaign(target, scenario, auto) ==
    /\ pc = "idle"
    /\ persona # None
    /\ \E now \in clock..MaxClock, chain \in get_attack_chain(persona, scenario) :
         \E draws \in [1..Len(chain) -> Draws] :
            LET ref == NewCampaignRef(heap, current_campaign)
                attack_plan == _generate_persona_attack_plan(persona, chain, draws)
            IN /\ clock' = now
               /\ current_campaign' = ref
               /\ heap' = Store(heap, ref,
                                NewCampaign(persona, target, scenario, now, attack_plan))
    /\ pc' = "loop"
    /\ idx' = 1
    /\ auto_execute' = auto
    /\ returned' = None
    /\ executed' = <<>>
    /\ stealth_calls' = <<>>
    /\ UNCHANGED <<persona_library, mitre_client, persona, attack_history, unit>>

\* one planned phase of the loop with auto_execute: _execute_phase and the
\* append of its result
ExecutePlannedPhase ==
    /\ pc = "loop"
    /\ auto_execute
    /\ idx <= Len(heap[current_campaign].attack_plan)
    /\ \E r1 \in Draws, r2 \in Draws, r3 \in Draws, mb \in ExfilAmounts :
         LET campaign == heap[current_campaign]
             phase == CurrentPhase
             out == _execute_phase(campaign, phase, campaign.target,
                                   _calculate_success_probability(persona, phase),
                                   _calculate_detection_probability(persona, phase),
                                   r1, r2, r3, mb)
         IN /\ heap' = [heap EXCEPT ![current_campaign] =
                            [out.campaign EXCEPT !.phases = Append(@, out.result)]]
            /\ executed' = Append(executed,
                                  [plan_index |-> idx, alternative |-> FALSE, phase |-> phase])
            /\ IF NeedsRetry(out.result.status)
               THEN pc' = "retry" /\ idx' = idx
               ELSE pc' = "loop" /\ idx' = idx + 1
    /\ UNCHANGED <<persona_library, mitre_client, persona, attack_history, current_campaign, auto_execute,
                   returned, clock, stealth_calls, unit>>

\* RetryPhase without the test of the alternative: executing the missing
\* phase fails and the call ends there
RetryPhaseUnchecked ==
    /\ pc = "retry"
    /\ \E r \in Draws :
         LET stealth == should_use_stealth_technique(persona, r)
             alternatives == _get_alternative_technique(persona, CurrentPhase)
         IN /\ stealth_calls' = Append(stealth_calls,
                                       [plan_index |-> idx, value |-> stealth])
            /\ IF stealth /\ alternatives = {}
               THEN /\ pc' = "idle"
                    /\ idx' = 0
                    /\ returned' = Raised("TypeError")
                    /\ UNCHANGED <<heap, executed>>
               ELSE /\ pc' = "loop"
                    /\ idx' = idx + 1
                    /\ UNCHANGED <<heap, executed, returned>>
    /\ UNCHANGED <<persona_library, mitre_client, persona, attack_history, current_campaign, auto_execute,
                   clock, unit>>

\* RetryPhase that asks again after an alternative phase that failed or was
\* blocked, instead of moving on to the next planned phase
RetryPhaseAgain ==
    /\ pc = "retry"
    /\ \E r \in Draws :
         LET stealth == should_use_stealth_technique(persona, r)
             alternatives == _get_alternative_technique(persona, CurrentPhase)
         IN /\ stealth_calls' = Append(stealth_calls,
                                       [plan_index |-> idx, value |-> stealth])
            /\ IF stealth /\ AlternativeFound(alternatives)
               THEN \E alt_phase \in alternatives :
                    \E r1 \in Draws, r2 \in Draws, r3 \in Draws, mb \in ExfilAmounts :
                      LET campaign == heap[current_campaign]
                          out == _execute_phase(campaign, alt_phase, campaign.target,
                                    _calculate_success_probability(persona, alt_phase),
                                    _calculate_detection_probability(persona, alt_phase),
                                    r1, r2, r3, mb)
                      IN /\ heap' = [heap EXCEPT ![current_campaign] =
                                [out.campaign EXCEPT
                                    !.phases = AppendAlternative(@, out.result)]]
                         /\ executed' = Append(executed,
                                [plan_index |-> idx, alternative |-> TRUE,
                                 phase |-> alt_phase])
                         /\ IF NeedsRetry(out.result.status)
                            THEN pc' = "retry" /\ idx' = idx
                            ELSE pc' = "loop" /\ idx' = idx + 1
               ELSE /\ pc' = "loop"
                    /\ idx' = idx + 1
                    /\ UNCHANGED <<heap, executed>>
    /\ UNCHANGED <<persona_library, mitre_client, persona, attack_history, current_campaign, auto_execute,
                   returned, clock, unit>>

\* after a blocked or failed phase: the stealth decision and, when it is
\* taken and an alternative exists, the alternative phase
RetryPhase ==
    /\ pc = "retry"
    /\ \E r \in Draws :
         LET stealth == should_use_stealth_technique(persona, r)
             alternatives == _get_alternative_technique(persona, CurrentPhase)
         IN /\ stealth_calls' = Append(stealth_calls,
                                       [plan_index |-> idx, value |-> stealth])
            /\ IF stealth /\ AlternativeFound(alternatives)
               THEN \E alt_phase \in alternatives :
                    \E r1 \in Draws, r2 \in Draws, r3 \in Draws, mb \in ExfilAmounts :
                      LET campaign == heap[current_campaign]
                          out == _execute_phase(campaign, alt_phase, campaign.target,
                                    _calculate_success_probability(persona, alt_phase),
                                    _calculate_detection_probability(persona, alt_phase),
                                    r1, r2, r3, mb)
                      IN /\ heap' = [heap EXCEPT ![current_campaign] =
                                [out.campaign EXCEPT
                                    !.phases = AppendAlternative(@, out.result)]]
                         /\ executed' = Append(executed,
                                [plan_index |-> idx, alternative |-> TRUE,
                                 phase |-> alt_phase])
               ELSE UNCHANGED <<heap, executed>>
    /\ pc' = "loop"
    /\ idx' = idx + 1
    /\ UNCHANGED <<persona_library, mitre_client, persona, attack_history, current_campaign, auto_execute,
                   returned, clock, unit>>

\* one planned phase of the loop without auto_execute
PlanPhase ==
    /\ pc = "loop"
    /\ ~auto_execute
    /\ idx <= Len(heap[current_campaign].attack_plan)
    /\ heap' = [heap EXCEPT ![current_campaign].phases =
                    Append(@, PlannedEntry(CurrentPhase))]
    /\ idx' = idx + 1
    /\ UNCHANGED <<persona_library, mitre_client, persona, attack_history, current_campaign, pc, auto_execute,
                   returned, clock, executed, stealth_calls, unit>>

\* the end of execute_attack_campaign: end time, status, metrics, history,
\* and the campaign is returned
FinalizeCampaign ==
    /\ pc = "loop"
    /\ idx > Len(heap[current_campaign].attack_plan)
    /\ \E now \in clock..MaxClock :
         /\ clock' = now
         /\ heap' = [heap EXCEPT ![current_campaign] =
                        _calculate_campaign_metrics(
                            [end_time |-> now] @@ [@ EXCEPT !.status = "completed"])]
    /\ attack_history' = Append(attack_history, current_campaign)
    /\ returned' = ReturnedCampaign(current_campaign)
    /\ pc' = "idle"
    /\ idx' = 0
    /\ UNCHANGED <<persona_library, mitre_client, persona, current_campaign, auto_execute, executed,
                   stealth_calls, unit>>

\* generate_attack_report(campaign_id)
GenerateAttackReport(campaign_id) ==
    /\ pc = "idle"
    /\ returned' = Returned(generate_attack_report(campaign_id))
    /\ UNCHANGED <<persona_library, mitre_client, persona, attack_history, current_campaign, heap, pc, idx,
                   auto_execute, clock, executed, stealth_calls, unit>>

Next ==
    \/ \E persona_name \in Names : SetPersona(persona_name)
    \/ ExecuteWithoutPersona
    \/ \E target \in Targets, scenario \in Scenarios, auto \in BOOLEAN :
         /\ attack_history = <<>>
         /\ StartCampaign(target, scenario, auto)
    \/ ExecutePlannedPhase
    \/ RetryPhase
    \/ PlanPhase
    \/ FinalizeCampaign
    \/ \E campaign_id \in {None} \cup {CampaignId(t) : t \in 0..MaxClock} :
         GenerateAttackReport(campaign_id)

\* a fresh agent up to and after its first campaign
Spec == Init /\ [][Next]_vars

\* the steps of a call of execute_attack_campaign that has started
RunStep == ExecutePlannedPhase \/ RetryPhase \/ PlanPhase \/ FinalizeCampaign

\* the call is synchronous straight-line code: a step that can be taken is
\* taken
SpecLive == Init /\ [][Next]_vars /\ WF_vars(RunStep)

RECURSIVE PlannedIn(_, _)
\* the phases planned in the first n campaigns of the heap
PlannedIn(h, n) ==
    IF n = 0 THEN 0 ELSE Len(h[n].attack_plan) + PlannedIn(h, n - 1)

\* the phases the next campaign of the persona would plan
WouldPlan(scenario) ==
    {Len(chain) : chain \in get_attack_chain(persona, scenario)}

NextHistory ==
    \/ \E persona_name \in HistoryNames : SetPersona(persona_name)
    \/ ExecuteWithoutPersona
    \/ \E target \in Targets, scenario \in HistoryScenarios, auto \in BOOLEAN :
         /\ Len(attack_history) < MaxRuns
         /\ persona # None
         /\ \A n \in WouldPlan(scenario) :
                PlannedIn(heap, Len(heap)) + n <= MaxPlanned
         /\ StartCampaign(target, scenario, auto)
    \/ ExecutePlannedPhase
    \/ RetryPhase
    \/ PlanPhase
    \/ FinalizeCampaign
    \/ \E campaign_id \in {None} \cup {CampaignId(t) : t \in 0..MaxClock} :
         GenerateAttackReport(campaign_id)

\* an agent through several campaigns of small personas
SpecHistory == Init /\ [][NextHistory]_vars

(***************************************************************************)
(* _execute_phase on its own, as the unit tests call it: the campaign dict *)
(* is the four-key fixture and the two probabilities are given             *)
(***************************************************************************)
UnitCampaign ==
    [detection_events |-> <<>>, techniques_used |-> <<>>,
     objectives_completed |-> <<>>, data_exfiltrated |-> 0]

UnitPhases ==
    {[tactic |-> "initial-access", technique_id |-> "T1566.002",
      technique_name |-> "Spearphishing Link", stealth_mode |-> FALSE],
     [tactic |-> "exfiltration", technique_id |-> "T1041",
      technique_name |-> "Exfiltration Over C2 Channel", stealth_mode |-> FALSE]}

\* 0.05, 0.1 and 0.9
UnitProbabilities == {5000, 10000, 90000}

UnitDraws == {100, 299, 300, 500, 900}

InitPhase ==
    /\ persona = None
    /\ attack_history = <<>>
    /\ current_campaign = 1
    /\ heap = <<UnitCampaign>>
    /\ pc = "unit"
    /\ idx = 0
    /\ auto_execute = TRUE
    /\ returned = None
    /\ clock = 0
    /\ executed = <<>>
    /\ stealth_calls = <<>>
    /\ mitre_client = None
    /\ persona_library = None
    /\ unit \in [phase : UnitPhases, ps : UnitProbabilities, pd : UnitProbabilities,
                 r1 : UnitDraws, r2 : UnitDraws, r3 : UnitDraws, mb : {50}]

\* agent._execute_phase(phase, "test-target")
ExecutePhaseCall ==
    /\ pc = "unit"
    /\ LET out == _execute_phase(heap[current_campaign], unit.phase, "test-target",
                                 unit.ps, unit.pd, unit.r1, unit.r2, unit.r3, unit.mb)
       IN /\ heap' = [heap EXCEPT ![current_campaign] = out.campaign]
          /\ returned' = Returned(out.result)
    /\ pc' = "unit_done"
    /\ UNCHANGED <<persona_library, mitre_client, persona, attack_history, current_campaign, idx, auto_execute,
                   clock, executed, stealth_calls, unit>>

NextPhase == ExecutePhaseCall

SpecPhase == InitPhase /\ [][NextPhase]_vars

(***************************************************************************)
(* Properties                                                              *)
(***************************************************************************)
\* a call of execute_attack_campaign is under way
Running == pc \in {"loop", "retry"}

IsRaised(value) == "raised" \in DOMAIN value

\* the dict of the current campaign
Current == heap[current_campaign]

C2_RunsToCompletion ==
    /\ [](Running => Current.status = "active")
    /\ [][(~Running /\ Running') =>
            /\ persona # None
            /\ heap'[current_campaign'].status = "active"]_vars
    /\ [][(Running /\ ~Running') =>
            /\ idx > Len(Current.attack_plan)
            /\ heap'[current_campaign].status = "completed"
            /\ current_campaign' = current_campaign
            /\ attack_history' = Append(attack_history, current_campaign)
            /\ returned' = ReturnedCampaign(current_campaign)]_vars
    /\ (Running ~> (pc = "idle" /\ current_campaign # NullRef
                        /\ Current.status = "completed"))

\* a completed auto-executed run in which a blocked or failed phase found no
\* alternative technique
C2_Witness ==
    /\ pc = "idle"
    /\ current_campaign # NullRef
    /\ auto_execute
    /\ Current.status = "completed"
    /\ \E i \in 1..Len(stealth_calls) :
         /\ stealth_calls[i].value
         /\ \A j \in 1..Len(executed) :
                executed[j].plan_index = stealth_calls[i].plan_index
                    => ~executed[j].alternative

\* C3: without auto_execute the campaign holds one PLANNED entry per planned
\* phase handled so far, in plan order (all of the plan once completed), and
\* no outcome: no detection event, no technique used, no objective, no data
C3_PlanOnly ==
    (current_campaign # NullRef /\ ~auto_execute /\ pc \in {"idle", "loop", "retry"}) =>
        LET n == IF Current.status = "completed"
                 THEN Len(Current.attack_plan) ELSE idx - 1
        IN /\ Len(Current.phases) = n
           /\ \A i \in 1..n :
                /\ Current.phases[i].phase = Current.attack_plan[i]
                /\ Current.phases[i].status = PLANNED
                /\ DOMAIN Current.phases[i] = {"phase", "status"}
           /\ Current.detection_events = <<>>
           /\ Current.techniques_used = <<>>
           /\ Current.objectives_completed = <<>>
           /\ Current.data_exfiltrated = 0

C3_Witness ==
    /\ pc = "idle"
    /\ current_campaign # NullRef
    /\ ~auto_execute
    /\ Current.status = "completed"
    /\ Len(Current.phases) = 2
    /\ Current.phases[1].phase.tactic # Current.phases[2].phase.tactic

\* C4: for one executed phase with probabilities ps, pd and draws r1, r2,
\* r3: detected iff r2 < pd; Blocked iff detected and r3 < 0.3, whatever r1;
\* otherwise Success iff r1 < ps and Failed iff r1 >= ps; ps = 0.9,
\* pd = 0.05 and every draw 0.5 give Success, not detected
C4_PhaseOutcome ==
    pc = "unit_done" =>
        LET result == returned.value IN
        /\ result.detected <=> (unit.r2 * 100 < unit.pd)
        /\ (result.status = BLOCKED) <=> (result.detected /\ unit.r3 < 300)
        /\ result.status # BLOCKED =>
            /\ (result.status = SUCCESS) <=> (unit.r1 * 100 < unit.ps)
            /\ (result.status = FAILED) <=> (unit.r1 * 100 >= unit.ps)
        /\ (unit.ps = 90000 /\ unit.pd = 5000
                /\ unit.r1 = 500 /\ unit.r2 = 500 /\ unit.r3 = 500) =>
            (result.status = SUCCESS /\ ~result.detected)

C4_Witness ==
    /\ pc = "unit_done"
    /\ unit.ps = 90000 /\ unit.pd = 5000
    /\ unit.r1 = 500 /\ unit.r2 = 500 /\ unit.r3 = 500
    /\ returned.value.status = SUCCESS
    /\ ~returned.value.detected

\* the persona that runs (or ran) the current campaign is still set
SamePersona == persona # None /\ persona.name = Current.persona.name

\* the current campaign is an auto-executed one
AutoCampaign ==
    /\ current_campaign # NullRef
    /\ auto_execute
    /\ pc \in {"idle", "loop", "retry"}

\* the planned phases whose loop iteration is over
Handled ==
    IF Current.status = "completed" THEN Len(Current.attack_plan) ELSE idx - 1

\* the position, among the executed phases, of planned phase k
PlannedPos(k) ==
    CHOOSE i \in 1..Len(executed) :
        executed[i].plan_index = k /\ ~executed[i].alternative

\* should_use_stealth_technique was called after planned phase k / gave true
StealthAsked(k) == \E j \in 1..Len(stealth_calls) : stealth_calls[j].plan_index = k
StealthTaken(k) ==
    \E j \in 1..Len(stealth_calls) :
        stealth_calls[j].plan_index = k /\ stealth_calls[j].value

\* C5: in auto-execute mode the results follow the plan in order; an
\* alternative phase is executed for a planned phase iff its result is
\* Blocked or Failed, should_use_stealth_technique() then returned true and
\* _get_alternative_technique returns an alternative phase; its result
\* comes directly after the result of the phase that triggered it and
\* before any later planned phase;
\* otherwise the next result is that of the next planned phase
C5_AlternativeIffRetry ==
    (AutoCampaign /\ SamePersona) =>
        /\ Len(executed) = Len(Current.phases)
        /\ \A i \in 1..Len(executed) :
            LET k == executed[i].plan_index IN
            /\ Current.phases[i].tactic = executed[i].phase.tactic
            /\ Current.phases[i].technique_id = executed[i].phase.technique_id
            /\ IF executed[i].alternative
               THEN /\ i > 1
                    /\ ~executed[i - 1].alternative
                    /\ executed[i - 1].plan_index = k
               ELSE /\ executed[i].phase = Current.attack_plan[k]
                    /\ k = 1 + Cardinality({j \in 1..(i - 1) : ~executed[j].alternative})
        /\ Cardinality({j \in 1..Len(executed) : ~executed[j].alternative})
                = Handled + (IF pc = "retry" THEN 1 ELSE 0)
        /\ \A k \in 1..Handled :
            LET i == PlannedPos(k)
                result == Current.phases[i]
                retried == i < Len(executed) /\ executed[i + 1].alternative
            IN /\ StealthAsked(k) <=> result.status \in {BLOCKED, FAILED}
               /\ retried <=>
                    /\ result.status \in {BLOCKED, FAILED}
                    /\ StealthTaken(k)
                    /\ _get_alternative_technique(
                            persona, Current.attack_plan[k]) # {}

\* an alternative phase between the two planned phases of a campaign
C5_Witness ==
    /\ AutoCampaign
    /\ Len(executed) >= 3
    /\ executed[2].alternative
    /\ ~executed[3].alternative
    /\ executed[3].plan_index = 2

\* C6: every alternative phase has the tactic of the phase that failed or
\* was blocked, has stealth_mode true, and uses a technique different from
\* the technique of that phase
C6_AlternativeDiffers ==
    current_campaign # NullRef =>
        \A i \in 1..Len(executed) :
            executed[i].alternative =>
                LET original == Current.attack_plan[executed[i].plan_index] IN
                /\ executed[i].phase.tactic = original.tactic
                /\ executed[i].phase.stealth_mode
                /\ executed[i].phase.technique_id # original.technique_id
                /\ executed[i].phase.technique_name # original.technique_name

\* C7: the phases list of a campaign only grows at the end: every result
\* keeps its position and its content in every later state
C7_PhasesAppendOnly ==
    [][(current_campaign # NullRef /\ current_campaign' = current_campaign) =>
        LET old == heap[current_campaign].phases
            new == heap'[current_campaign].phases
        IN /\ Len(new) \in {Len(old), Len(old) + 1}
           /\ \A i \in 1..Len(old) : new[i] = old[i]]_vars

\* a failed or blocked phase still in place after its alternative succeeded
C7_Witness ==
    /\ AutoCampaign
    /\ Len(executed) >= 2
    /\ executed[2].alternative
    /\ Current.phases[1].status \in {BLOCKED, FAILED}
    /\ Current.phases[2].status = SUCCESS

\* C8: a finalized campaign never changes: whatever is called later, every
\* entry of attack_history stays the same dict with the same content; the
\* history grows only when a run completes, by that run's campaign, at the
\* end
C8_FinalizedImmutable ==
    /\ [](\A i, j \in 1..Len(attack_history) :
            /\ heap[attack_history[i]].status = "completed"
            /\ attack_history[i] = attack_history[j] => i = j)
    /\ [][/\ \A i \in 1..Len(attack_history) :
                /\ attack_history'[i] = attack_history[i]
                /\ heap'[attack_history[i]] = heap[attack_history[i]]
          /\ IF Running /\ ~Running'
             THEN attack_history' = Append(attack_history, current_campaign)
             ELSE attack_history' = attack_history]_vars

\* a report asked for, under another persona, after two completed runs
C8_Witness ==
    /\ Len(attack_history) = 2
    /\ pc = "idle"
    /\ Len(heap[attack_history[1]].phases) >= 1
    /\ persona # None
    /\ persona.name # heap[attack_history[2]].persona.name
    /\ "value" \in DOMAIN returned

\* the technique ids of the phase results with status Success, in order
SuccessfulTechniques(phases) ==
    LET won == SelectSeq(phases, LAMBDA ph : ph.status = SUCCESS)
    IN [i \in 1..Len(won) |-> won[i].technique_id]

\* C9: techniques_used is exactly the sequence of technique ids of the
\* phase results whose status is Success, in append order
C9_TechniquesUsed ==
    \A ref \in 1..Len(heap) :
        heap[ref].techniques_used = SuccessfulTechniques(heap[ref].phases)

\* a blocked phase followed by a successful one
C9_Witness ==
    /\ AutoCampaign
    /\ Len(Current.phases) >= 2
    /\ Current.phases[1].status = BLOCKED
    /\ Current.phases[2].status = SUCCESS
    /\ Current.techniques_used = <<Current.phases[2].technique_id>>

\* some phase result of the campaign with the tactic has status Success
Succeeded(campaign, tactic) ==
    \E i \in 1..Len(campaign.phases) :
        /\ campaign.phases[i].status = SUCCESS
        /\ campaign.phases[i].tactic = tactic

\* the number of successful exfiltration phases
Exfiltrations(campaign) ==
    Cardinality({i \in 1..Len(campaign.phases) :
                    /\ campaign.phases[i].status = SUCCESS
                    /\ campaign.phases[i].tactic = "exfiltration"})

\* C10: the objective of initial-access, persistence and exfiltration is
\* marked complete iff a phase result with that tactic has status Success;
\* data_exfiltrated lies between n and 100 * n for n successful
\* exfiltration results, and never decreases
C10_Objectives ==
    /\ [](\A ref \in 1..Len(heap) :
            LET campaign == heap[ref]
                marked == Range(campaign.objectives_completed)
            IN /\ "initial_access" \in marked <=> Succeeded(campaign, "initial-access")
               /\ "persistence_established" \in marked <=> Succeeded(campaign, "persistence")
               /\ "data_exfiltrated" \in marked <=> Succeeded(campaign, "exfiltration")
               /\ campaign.data_exfiltrated >= Exfiltrations(campaign)
               /\ campaign.data_exfiltrated <= 100 * Exfiltrations(campaign)
               /\ campaign.status = "completed" =>
                    /\ campaign.objectives_achieved.initial_access
                            <=> Succeeded(campaign, "initial-access")
                    /\ campaign.objectives_achieved.persistence
                            <=> Succeeded(campaign, "persistence")
                    /\ campaign.objectives_achieved.data_theft
                            <=> Succeeded(campaign, "exfiltration"))
    /\ [][(current_campaign # NullRef /\ current_campaign' = current_campaign) =>
            heap'[current_campaign].data_exfiltrated
                >= heap[current_campaign].data_exfiltrated]_vars

\* initial access and exfiltration both succeeded
C10_Witness ==
    /\ AutoCampaign
    /\ Current.status = "completed"
    /\ Current.objectives_achieved.initial_access
    /\ Current.objectives_achieved.data_theft
    /\ ~Current.objectives_achieved.persistence
    /\ Current.data_exfiltrated = 37

(***************************************************************************)
(* the risk score of _calculate_campaign_metrics on its own: every mix of *)
(* achieved objectives, every detection rate detected / total             *)
(***************************************************************************)
MaxTotal == 6

ObjectiveMixes ==
    [initial_access : BOOLEAN, persistence : BOOLEAN,
     data_theft : BOOLEAN, lateral_movement : BOOLEAN]

InitRisk ==
    /\ persona = None
    /\ attack_history = <<>>
    /\ current_campaign = NullRef
    /\ heap = <<>>
    /\ pc = "unit"
    /\ idx = 0
    /\ auto_execute = TRUE
    /\ returned = None
    /\ clock = 0
    /\ executed = <<>>
    /\ stealth_calls = <<>>
    /\ mitre_client = None
    /\ persona_library = None
    /\ unit \in {u \in [objectives : ObjectiveMixes,
                        detected : 0..MaxTotal, total : 0..MaxTotal] :
                    u.detected <= u.total}

\* the risk score lines of _calculate_campaign_metrics
RiskScoreCall ==
    /\ pc = "unit"
    /\ returned' = Returned(RiskScore(unit.objectives, Rate(unit.detected, unit.total)))
    /\ pc' = "unit_done"
    /\ UNCHANGED <<persona_library, mitre_client, persona, attack_history, current_campaign, heap, idx,
                   auto_execute, clock, executed, stealth_calls, unit>>

NextRisk == RiskScoreCall

SpecRisk == InitRisk /\ [][NextRisk]_vars

\* the points of the achieved objectives
ObjectivePoints(objectives) ==
    (IF objectives.initial_access THEN 20 ELSE 0)
    + (IF objectives.persistence THEN 25 ELSE 0)
    + (IF objectives.data_theft THEN 30 ELSE 0)
    + (IF objectives.lateral_movement THEN 25 ELSE 0)

\* C11: the risk score is an integer in [0,100] for every mix of achieved
\* objectives and every detection rate: the points of the achieved
\* objectives (20, 25, 30, 25) times (1 - 0.3 * detection_rate), truncated
C11_RiskScoreRange ==
    pc = "unit_done" =>
        LET score == returned.value
            den == IF unit.total > 0 THEN unit.total ELSE 1
            num == IF unit.total > 0 THEN unit.detected ELSE 0
            exact == ObjectivePoints(unit.objectives) * (10 * den - 3 * num)
        IN /\ score \in 0..100
           /\ score * 10 * den <= exact
           /\ exact < (score + 1) * 10 * den

\* all four objectives achieved, one phase in three detected: 100 * 0.9
C11_Witness ==
    /\ pc = "unit_done"
    /\ \A o \in DOMAIN unit.objectives : unit.objectives[o]
    /\ unit.detected = 1
    /\ unit.total = 3
    /\ returned.value = 90

(***************************************************************************)
(* the two probability functions on their own, for every persona profile   *)
(* (base success rate in hundredths) and every phase                       *)
(***************************************************************************)
SuccessRates == 0..100
SophisticationLevels == {"low", "medium", "high", "advanced"}
StealthLevels == {"noisy", "balanced", "stealthy"}
PhaseTactics ==
    {"initial-access", "persistence", "defense-evasion", "exfiltration", "impact"}

InitProbability ==
    /\ persona \in [technique_success_rate : SuccessRates,
                    sophistication_level : SophisticationLevels,
                    stealth_preference : StealthLevels]
    /\ attack_history = <<>>
    /\ current_campaign = NullRef
    /\ heap = <<>>
    /\ pc = "unit"
    /\ idx = 0
    /\ auto_execute = TRUE
    /\ returned = None
    /\ clock = 0
    /\ executed = <<>>
    /\ stealth_calls = <<>>
    /\ mitre_client = None
    /\ persona_library = None
    /\ unit \in [tactic : PhaseTactics, stealth_mode : BOOLEAN]

\* agent._calculate_success_probability(phase) and
\* agent._calculate_detection_probability(phase)
ProbabilityCall ==
    /\ pc = "unit"
    /\ returned' = Returned(
            [success |-> _calculate_success_probability(persona, unit),
             detection |-> _calculate_detection_probability(persona, unit)])
    /\ pc' = "unit_done"
    /\ UNCHANGED <<persona_library, mitre_client, persona, attack_history, current_campaign, heap, idx,
                   auto_execute, clock, executed, stealth_calls, unit>>

NextProbability == ProbabilityCall

SpecProbability == InitProbability /\ [][NextProbability]_vars

\* C12: for every base success rate in [0,1], sophistication level, stealth
\* preference, tactic and stealth_mode flag the success probability is in
\* [0, 0.95] and the detection probability in [0, 0.9], both within [0,1]
C12_ProbabilityRange ==
    pc = "unit_done" =>
        /\ returned.value.success >= 0
        /\ returned.value.success * 100 <= 95 * PROB_SCALE
        /\ returned.value.detection >= 0
        /\ returned.value.detection * 10 <= 9 * PROB_SCALE
        /\ returned.value.success <= PROB_SCALE
        /\ returned.value.detection <= PROB_SCALE

\* an advanced persona with base rate 1.0: 1.1 is capped to 0.95
C12_Witness ==
    /\ pc = "unit_done"
    /\ persona.technique_success_rate = 100
    /\ persona.sophistication_level = "advanced"
    /\ unit.tactic = "initial-access"
    /\ returned.value.success * 100 = 95 * PROB_SCALE

\* the positions of the executed phase results of a campaign
ExecutedResults(campaign) ==
    {i \in 1..Len(campaign.phases) : campaign.phases[i].status # PLANNED}

\* the fraction `rate` is n / total, or 0 when total is 0
IsRatio(rate, n, total) ==
    /\ rate.den > 0
    /\ 0 <= rate.num
    /\ rate.num <= rate.den
    /\ IF total = 0 THEN rate.num = 0 ELSE rate.num * total = n * rate.den

\* C13: on finalization success_rate is the number of executed phase results
\* with status Success over the number of executed phase results, and
\* detection_rate the number of those with detected true over the same
\* total, alternative phases included; both are in [0,1], and 0 when no
\* phase was executed
C13_Rates ==
    \A ref \in 1..Len(heap) :
        heap[ref].status = "completed" =>
            LET campaign == heap[ref]
                results == ExecutedResults(campaign)
                won == {i \in results : campaign.phases[i].status = SUCCESS}
                seen == {i \in results : campaign.phases[i].detected}
            IN /\ IsRatio(campaign.success_rate,
                          Cardinality(won), Cardinality(results))
               /\ IsRatio(campaign.detection_rate,
                          Cardinality(seen), Cardinality(results))

\* two planned phases and one alternative: two of three succeeded, one of
\* three was detected
C13_Witness ==
    /\ AutoCampaign
    /\ Current.status = "completed"
    /\ Len(Current.attack_plan) = 2
    /\ Len(Current.phases) = 3
    /\ Current.success_rate = [num |-> 2, den |-> 3]
    /\ Current.detection_rate = [num |-> 1, den |-> 3]

(***************************************************************************)
(* select_technique_for_tactic on its own, called twice with the same     *)
(* arguments, for personas with every technique list over a pool           *)
(***************************************************************************)
MaxTechniques == 3

\* classified under two tactics
ValidAccounts == TechniqueWithId("Valid Accounts", "T1078", <<"persistence", "initial-access">>)
\* classified under initial-access of another kill chain only
MobilePhishing ==
    [name |-> "Phishing", external_id |-> "T1660",
     kill_chain_phases |->
        <<[kill_chain_name |-> "mitre-mobile-attack", phase_name |-> "initial-access"]>>]

TechniquePool ==
    {SpearphishingLink, SpearphishingAttachment, ValidAccounts,
     CustomImplant, MobilePhishing}

\* the technique lists of at most MaxTechniques techniques of the pool
TechniqueLists ==
    {l \in UNION {[1..n -> TechniquePool] : n \in 0..MaxTechniques} :
        \A i, j \in 1..Len(l) : l[i] = l[j] => i = j}

SelectTactics == {"initial-access", "persistence", "impact"}
ExcludeLists == SUBSET {"T1566.002", "T1078", ""}

InitSelect ==
    /\ persona \in [techniques : TechniqueLists,
                    sophistication_level : {"low", "advanced"}]
    /\ attack_history = <<>>
    /\ current_campaign = NullRef
    /\ heap = <<>>
    /\ pc = "unit"
    /\ idx = 0
    /\ auto_execute = TRUE
    /\ returned = None
    /\ clock = 0
    /\ executed = <<>>
    /\ stealth_calls = <<>>
    /\ mitre_client = None
    /\ persona_library = None
    /\ unit \in [tactic : SelectTactics, exclude : ExcludeLists, first : {None}]

\* the values persona.select_technique_for_tactic(tactic, exclude) can return
Selected(p, tactic, exclude) ==
    LET found == select_technique_for_tactic(p, tactic, exclude)
    IN IF found = {} THEN {Returned(None)} ELSE {Returned(tech) : tech \in found}

\* persona.select_technique_for_tactic(tactic, exclude)
SelectCall ==
    /\ pc = "unit"
    /\ returned' \in Selected(persona, unit.tactic, unit.exclude)
    /\ pc' = "unit_again"
    /\ UNCHANGED <<persona_library, mitre_client, persona, attack_history, current_campaign, heap, idx,
                   auto_execute, clock, executed, stealth_calls, unit>>

\* the same call once more; the first answer is kept in unit.first
SelectAgain ==
    /\ pc = "unit_again"
    /\ unit' = [unit EXCEPT !.first = returned]
    /\ returned' \in Selected(persona, unit.tactic, unit.exclude)
    /\ pc' = "unit_done"
    /\ UNCHANGED <<persona_library, mitre_client, persona, attack_history, current_campaign, heap, idx,
                   auto_execute, clock, executed, stealth_calls>>

NextSelect == SelectCall \/ SelectAgain

SpecSelect == InitSelect /\ [][NextSelect]_vars

\* the technique has a (mitre-attack, tactic) kill-chain phase
UnderTactic(tech, tactic) ==
    [kill_chain_name |-> "mitre-attack", phase_name |-> tactic]
        \in Range(tech.kill_chain_phases)

\* the technique has an external id and the exclude list names it
Excluded(tech, exclude) ==
    "external_id" \in DOMAIN tech /\ tech.external_id \in exclude

\* the positions of the persona's techniques that qualify for the call
Qualifying ==
    {i \in 1..Len(persona.techniques) :
        /\ UnderTactic(persona.techniques[i], unit.tactic)
        /\ ~Excluded(persona.techniques[i], unit.exclude)}

\* C14: select_technique_for_tactic returns None or a technique of the
\* persona's own list that is classified under the tactic and whose id is
\* not in the exclude list
C14_SelectedQualifies ==
    pc \in {"unit_again", "unit_done"} =>
        \/ returned.value = None
        \/ \E i \in 1..Len(persona.techniques) :
            /\ returned.value = persona.techniques[i]
            /\ UnderTactic(returned.value, unit.tactic)
            /\ ~Excluded(returned.value, unit.exclude)

\* a technique returned although the first of the tactic is excluded and
\* another one belongs to another kill chain
C14_Witness ==
    /\ pc = "unit_done"
    /\ persona.techniques = <<SpearphishingLink, MobilePhishing, ValidAccounts>>
    /\ unit.tactic = "initial-access"
    /\ unit.exclude = {"T1566.002"}
    /\ returned.value = ValidAccounts

\* C15: a persona that is not advanced gets the first technique, in the
\* stored order of its list, that matches the tactic and is not excluded,
\* and gets it again on a second call; an advanced persona gets some member
\* of the matching set; when nothing matches the answer is None and
\* nothing is raised
C15_FirstMatch ==
    pc = "unit_done" =>
        /\ "value" \in DOMAIN returned
        /\ "value" \in DOMAIN unit.first
        /\ IF Qualifying = {}
           THEN returned.value = None /\ unit.first.value = None
           ELSE /\ \E i \in Qualifying : returned.value = persona.techniques[i]
                /\ \E i \in Qualifying : unit.first.value = persona.techniques[i]
                /\ persona.sophistication_level # "advanced" =>
                    /\ returned = unit.first
                    /\ \E i \in Qualifying :
                        /\ returned.value = persona.techniques[i]
                        /\ \A j \in Qualifying : i <= j

\* two calls of a low persona that both give the first of two matches
C15_Witness ==
    /\ pc = "unit_done"
    /\ persona.sophistication_level = "low"
    /\ persona.techniques = <<CustomImplant, ValidAccounts, SpearphishingLink>>
    /\ unit.tactic = "initial-access"
    /\ unit.exclude = {}
    /\ unit.first.value = ValidAccounts
    /\ returned.value = ValidAccounts

(***************************************************************************)
(* get_attack_chain on its own, for the three built-in scenarios           *)
(***************************************************************************)
DataEncrypted == TechniqueWithId("Data Encrypted for Impact", "T1486", <<"impact">>)

ChainPool ==
    {SpearphishingLink, ValidAccounts, CustomImplant, ExfilOverC2, DataEncrypted}

ChainTechniqueLists ==
    {l \in UNION {[1..n -> ChainPool] : n \in 0..MaxTechniques} :
        \A i, j \in 1..Len(l) : l[i] = l[j] => i = j}

\* the tactic names of the enterprise matrix in the order sorted() gives
AlphabeticalTactics ==
    <<"collection", "command-and-control", "credential-access",
      "defense-evasion", "discovery", "execution", "exfiltration", "impact",
      "initial-access", "lateral-movement", "persistence",
      "privilege-escalation", "reconnaissance", "resource-development">>

\* sorted(list(tactics)) for a set of tactic names
SortedTactics(tactics) ==
    SelectSeq(AlphabeticalTactics, LAMBDA tactic : tactic \in tactics)

ChainTactics == {"exfiltration", "impact", "initial-access", "persistence"}
BuiltInScenarios == {"full_chain", "ransomware", "data_theft"}

InitChain ==
    /\ persona \in [techniques : ChainTechniqueLists,
                    tactics : {SortedTactics(t) : t \in SUBSET ChainTactics},
                    sophistication_level : {"low", "advanced"}]
    /\ attack_history = <<>>
    /\ current_campaign = NullRef
    /\ heap = <<>>
    /\ pc = "unit"
    /\ idx = 0
    /\ auto_execute = TRUE
    /\ returned = None
    /\ clock = 0
    /\ executed = <<>>
    /\ stealth_calls = <<>>
    /\ mitre_client = None
    /\ persona_library = None
    /\ unit \in [scenario : BuiltInScenarios]

\* persona.get_attack_chain(scenario)
ChainCall ==
    /\ pc = "unit"
    /\ \E chain \in get_attack_chain(persona, unit.scenario) :
            returned' = Returned(chain)
    /\ pc' = "unit_done"
    /\ UNCHANGED <<persona_library, mitre_client, persona, attack_history, current_campaign, heap, idx,
                   auto_execute, clock, executed, stealth_calls, unit>>

NextChain == ChainCall

SpecChain == InitChain /\ [][NextChain]_vars

\* the position of a tactic in a tactic order, 0 when it is not there
Position(order, tactic) ==
    IF tactic \in Range(order)
    THEN CHOOSE i \in 1..Len(order) : order[i] = tactic
    ELSE 0

Get(obj, key) == IF key \in DOMAIN obj THEN obj[key] ELSE NoneStr

\* obj.get(key, []) where the value is a list
GetList(obj, key) == IF key \in DOMAIN obj THEN obj[key] ELSE <<>>

MitreRef(ext) == [source_name |-> "mitre-attack", external_id |-> ext]

\* the objects test bundles are made of, in file order
GroupAPT29 ==
    [type |-> "intrusion-set", id |-> "intrusion-set--1", name |-> "APT29",
     aliases |-> <<"The Dukes", "Cozy Bear">>,
     external_references |-> <<MitreRef("G0016")>>]
PatternLink ==
    [type |-> "attack-pattern", id |-> "attack-pattern--1",
     name |-> "Spearphishing Link",
     kill_chain_phases |-> KillChain(<<"initial-access">>),
     external_references |-> <<MitreRef("T1566.002")>>]
\* a technique whose only external reference is not a mitre-attack one
PatternImplant ==
    [type |-> "attack-pattern", id |-> "attack-pattern--2",
     name |-> "Custom Implant",
     kill_chain_phases |-> KillChain(<<"persistence">>),
     external_references |-> <<[source_name |-> "capec", external_id |-> "CAPEC-1"]>>]
MalwareCobaltStrike ==
    [type |-> "malware", id |-> "malware--1", name |-> "Cobalt Strike",
     external_references |-> <<MitreRef("S0154")>>]
Uses(id, source_ref, target_ref) ==
    [type |-> "relationship", id |-> id, relationship_type |-> "uses",
     source_ref |-> source_ref, target_ref |-> target_ref]

ObjectPool ==
    <<GroupAPT29, PatternLink, PatternImplant, MalwareCobaltStrike,
      Uses("relationship--1", "intrusion-set--1", "attack-pattern--1"),
      Uses("relationship--2", "intrusion-set--1", "malware--1"),
      Uses("relationship--3", "intrusion-set--1", "attack-pattern--2"),
      \* the target is in no bundle
      Uses("relationship--4", "intrusion-set--1", "attack-pattern--gone"),
      \* the source is in no bundle
      Uses("relationship--5", "intrusion-set--gone", "attack-pattern--1")>>

\* the bundle holding the given objects of a pool, in pool order
BundleOf(pool, objects) ==
    [type |-> "bundle", objects |-> SelectSeq(pool, LAMBDA obj : obj \in objects)]

Bundles == {BundleOf(ObjectPool, objects) : objects \in SUBSET Range(ObjectPool)}

\* an entry of the objects list that is not a dict
NotADict == [not_a_dict |-> TRUE]
IsDict(obj) == "not_a_dict" \notin DOMAIN obj

\* the position of the first entry on which obj.get raises AttributeError,
\* or one past the end
FirstNonDict(objects) ==
    IF \A i \in 1..Len(objects) : IsDict(objects[i]) THEN Len(objects) + 1
    ELSE CHOOSE i \in 1..Len(objects) :
            /\ ~IsDict(objects[i])
            /\ \A j \in 1..(i - 1) : IsDict(objects[j])

\* the entries the loop of _parse_stix_data files before it ends or raises
Filed(stix_data) ==
    LET objects == GetList(stix_data, "objects")
    IN SubSeq(objects, 1, FirstNonDict(objects) - 1)

\* the last position of the list that holds an object with the id
LastWithId(objects, id) ==
    CHOOSE i \in 1..Len(objects) :
        /\ Get(objects[i], "id") = id
        /\ \A j \in (i + 1)..Len(objects) : Get(objects[j], "id") # id

\* `not stix_data`: None or a dict without keys
Falsy(stix_data) == stix_data = None \/ DOMAIN stix_data = {}

\* _load_from_cache: stix_data becomes what the cache file holds
_load_from_cache(client) == [client EXCEPT !.stix_data = client.cache_file]

\* the head of _parse_stix_data: the cache file is read when no data is held
WithData(client) ==
    IF Falsy(client.stix_data) THEN _load_from_cache(client) ELSE client

\* _parse_stix_data accumulating into the indexes it finds
ParseWithoutClear(client) ==
    LET objects == Filed(WithData(client).stix_data)
        old == client._objects_by_type
        new == [obj_type \in {Get(obj, "type") : obj \in Range(objects)} |->
                    SelectSeq(objects, LAMBDA obj : Get(obj, "type") = obj_type)]
    IN [WithData(client) EXCEPT
            !._objects_by_type =
                [obj_type \in DOMAIN old \cup DOMAIN new |->
                    (IF obj_type \in DOMAIN old THEN old[obj_type] ELSE <<>>)
                    \o (IF obj_type \in DOMAIN new THEN new[obj_type] ELSE <<>>)],
            !._objects_by_id =
                [obj_id \in {Get(obj, "id") : obj \in Range(objects)} \ {NoneStr, ""} |->
                    objects[LastWithId(objects, obj_id)]] @@ @,
            !._relationships =
                @ \o SelectSeq(objects, LAMBDA obj : Get(obj, "type") = "relationship")]

\* _parse_stix_data: the cache file is read when no data is held; the
\* indexes are cleared, then every object of stix_data is filed under its
\* type, under its id when it has one, and in the relationship list when it
\* is a relationship
_parse_stix_data(client) ==
    LET objects == Filed(WithData(client).stix_data) IN
    [WithData(client) EXCEPT
        !._objects_by_type =
            [obj_type \in {Get(obj, "type") : obj \in Range(objects)} |->
                SelectSeq(objects, LAMBDA obj : Get(obj, "type") = obj_type)],
        !._objects_by_id =
            [obj_id \in {Get(obj, "id") : obj \in Range(objects)} \ {NoneStr, ""} |->
                objects[LastWithId(objects, obj_id)]],
        !._relationships =
            SelectSeq(objects, LAMBDA obj : Get(obj, "type") = "relationship")]

\* MITREStixClient(cache_dir) with the bundle in the cache file: the
\* bundle is loaded and parsed
MITREStixClient(bundle) ==
    _parse_stix_data(
        [cache_file |-> bundle, stix_data |-> bundle,
         _objects_by_type |-> <<>>, _objects_by_id |-> <<>>,
         _relationships |-> <<>>])

\* str.lower() on the names used
Lower(name) ==
    CASE name = "APT29" -> "apt29"
      [] name = "Cozy Bear" -> "cozy bear"
      [] name = "COZY BEAR" -> "cozy bear"
      [] name = "The Dukes" -> "the dukes"
      [] name = "Nobelium" -> "nobelium"
      [] name = "Midnight Blizzard" -> "midnight blizzard"
      [] name = "Nobody" -> "nobody"
      [] OTHER -> name

\* the group object is called `name`, by its name or by an alias
NamedAs(group, name) ==
    \/ Lower(IF "name" \in DOMAIN group THEN group.name ELSE "") = Lower(name)
    \/ \E i \in 1..Len(GetList(group, "aliases")) :
            Lower(group.aliases[i]) = Lower(name)

\* get_group_by_name returning the last intrusion-set called `name`
GetLastGroupByName(client, name) ==
    LET intrusion_sets == GetList(client._objects_by_type, "intrusion-set")
        hits == SelectSeq(intrusion_sets, LAMBDA group : NamedAs(group, name))
    IN IF hits = <<>> THEN None ELSE hits[Len(hits)]

\* get_group_by_name: the first intrusion-set called `name`, or None
get_group_by_name(client, name) ==
    LET intrusion_sets == GetList(client._objects_by_type, "intrusion-set")
        hits == SelectSeq(intrusion_sets, LAMBDA group : NamedAs(group, name))
    IN IF hits = <<>> THEN None ELSE hits[1]

\* dict(target) with external_id taken from the first mitre-attack reference
WithExternalId(target) ==
    LET refs == SelectSeq(GetList(target, "external_references"),
                          LAMBDA ref : Get(ref, "source_name") = "mitre-attack")
    IN IF refs = <<>> THEN target
       ELSE [external_id |-> Get(refs[1], "external_id")] @@ target

\* the loop shared by get_techniques_for_group and get_software_for_group:
\* the targets, of one of the given types, of the 'uses' relationships
\* whose source is group_id
UsedBy(client, group_id, types) ==
    LET hits == SelectSeq(client._relationships,
                    LAMBDA rel :
                        /\ Get(rel, "source_ref") = group_id
                        /\ Get(rel, "relationship_type") = "uses"
                        /\ Get(rel, "target_ref") \in DOMAIN client._objects_by_id
                        /\ Get(client._objects_by_id[Get(rel, "target_ref")], "type")
                                \in types)
    IN [i \in 1..Len(hits) |->
            WithExternalId(client._objects_by_id[hits[i].target_ref])]

get_techniques_for_group(client, group_id) == UsedBy(client, group_id, {"attack-pattern"})

get_software_for_group(client, group_id) == UsedBy(client, group_id, {"malware", "tool"})

(***************************************************************************)
(* persona.py: from_mitre_data                                             *)
(***************************************************************************)
\* the tactics the techniques are classified under in the mitre-attack
\* kill chain
TacticsOf(techniques) ==
    {phase.phase_name :
        phase \in {ph \in UNION {Range(GetList(tech, "kill_chain_phases")) :
                                    tech \in Range(techniques)} :
                        Get(ph, "kill_chain_name") = "mitre-attack"}}

\* _categorize_techniques_by_tactic
_categorize_techniques_by_tactic(techniques) ==
    [tactic \in TacticsOf(techniques) |->
        SelectSeq(techniques, LAMBDA tech : ClassifiedUnder(tech, tactic))]

\* the tactics _set_preferred_techniques has an attribute for
PreferredTactics ==
    {"initial-access", "persistence", "privilege-escalation", "defense-evasion",
     "credential-access", "discovery", "lateral-movement", "collection",
     "command-and-control", "exfiltration", "impact"}

\* _set_preferred_techniques: per tactic, the ids (or names) of its first
\* five techniques
_set_preferred_techniques(techniques_by_tactic) ==
    [tactic \in DOMAIN techniques_by_tactic \cap PreferredTactics |->
        LET top == SubSeq(techniques_by_tactic[tactic], 1,
                          Min(5, Len(techniques_by_tactic[tactic])))
        IN [i \in 1..Len(top) |-> GetExternalId(top[i], top[i].name)]]

\* the mitre_id from_mitre_data reads off the group
MitreIdOf(group) ==
    LET refs == SelectSeq(GetList(group, "external_references"),
                          LAMBDA ref : Get(ref, "source_name") = "mitre-attack")
    IN IF refs = <<>> THEN "" ELSE GetExternalId(refs[1], "")

\* from_mitre_data taking the persona's tactics from the whole store
FromAllTactics(client, group_name, sophistication_level) ==
    LET group == get_group_by_name(client, group_name)
        techniques == get_techniques_for_group(client, group.id)
        software == get_software_for_group(client, group.id)
    IN IF group = None
       THEN Raised("Group not found in MITRE data")
       ELSE [persona |->
                [stix_id |-> group.id, mitre_id |-> MitreIdOf(group),
                 name |-> group.name,
                 tactics |-> SortedTactics(
                                TacticsOf(GetList(client._objects_by_type,
                                                  "attack-pattern"))),
                 techniques |-> techniques, software |-> software,
                 sophistication_level |-> sophistication_level,
                 stealth_preference |-> "balanced",
                 technique_success_rate |-> 70,
                 preferred |-> _set_preferred_techniques(
                                _categorize_techniques_by_tactic(techniques)),
                 preferred_tools |->
                    [i \in 1..Min(5, Len(software)) |-> software[i].name]]]

\* AttackerPersona.from_mitre_data(mitre_client, group_name,
\* sophistication_level=...): the persona, or the ValueError
from_mitre_data(client, group_name, sophistication_level) ==
    LET group == get_group_by_name(client, group_name)
        techniques == get_techniques_for_group(client, group.id)
        software == get_software_for_group(client, group.id)
    IN IF group = None
       THEN Raised("Group not found in MITRE data")
       ELSE [persona |->
                [stix_id |-> group.id, mitre_id |-> MitreIdOf(group),
                 name |-> group.name,
                 tactics |-> SortedTactics(TacticsOf(techniques)),
                 techniques |-> techniques, software |-> software,
                 sophistication_level |-> sophistication_level,
                 stealth_preference |-> "balanced",
                 technique_success_rate |-> 70,
                 preferred |-> _set_preferred_techniques(
                                _categorize_techniques_by_tactic(techniques)),
                 preferred_tools |->
                    [i \in 1..Min(5, Len(software)) |-> software[i].name]]]

(***************************************************************************)
(* a client whose store is re-ingested and queried                         *)
(***************************************************************************)
\* the bundle of the unit tests: one group, one technique, one malware
SampleBundle ==
    BundleOf(ObjectPool,
             {GroupAPT29, PatternLink, MalwareCobaltStrike,
              Uses("relationship--1", "intrusion-set--1", "attack-pattern--1"),
              Uses("relationship--2", "intrusion-set--1", "malware--1")})

GroupIds == {"intrusion-set--1", "intrusion-set--gone"}
GroupNames == {"APT29", "COZY BEAR", "Nobody"}

InitStore ==
    /\ mitre_client = MITREStixClient(SampleBundle)
    /\ persona_library = None
    /\ persona = None
    /\ attack_history = <<>>
    /\ current_campaign = NullRef
    /\ heap = <<>>
    /\ pc = "store"
    /\ idx = 0
    /\ auto_execute = TRUE
    /\ returned = [call |-> "__init__"]
    /\ clock = 0
    /\ executed = <<>>
    /\ stealth_calls = <<>>
    /\ unit = None

\* what the call of _parse_stix_data ends with
ParseOutcome(stix_data) ==
    IF Len(Filed(stix_data)) < Len(GetList(stix_data, "objects"))
    THEN [call |-> "_parse_stix_data"] @@ Raised("AttributeError")
    ELSE [call |-> "_parse_stix_data"]

\* client.stix_data = bundle; client._parse_stix_data()
Ingest(bundle) ==
    /\ pc = "store"
    /\ mitre_client' = _parse_stix_data([mitre_client EXCEPT !.stix_data = bundle])
    /\ returned' = ParseOutcome(bundle)
    /\ UNCHANGED <<persona_library, persona, attack_history, current_campaign, heap, pc, idx,
                   auto_execute, clock, executed, stealth_calls, unit>>

\* client.get_techniques_for_group(group_id)
GetTechniquesForGroup(group_id) ==
    /\ pc = "store"
    /\ returned' = [call |-> "get_techniques_for_group", group_id |-> group_id,
                    techniques |-> get_techniques_for_group(mitre_client, group_id)]
    /\ UNCHANGED <<persona_library, mitre_client, persona, attack_history, current_campaign, heap,
                   pc, idx, auto_execute, clock, executed, stealth_calls, unit>>

\* client.get_software_for_group(group_id)
GetSoftwareForGroup(group_id) ==
    /\ pc = "store"
    /\ returned' = [call |-> "get_software_for_group", group_id |-> group_id,
                    software |-> get_software_for_group(mitre_client, group_id)]
    /\ UNCHANGED <<persona_library, mitre_client, persona, attack_history, current_campaign, heap,
                   pc, idx, auto_execute, clock, executed, stealth_calls, unit>>

\* AttackerPersona.from_mitre_data(client, group_name, sophistication_level=...)
FromMitreData(group_name, sophistication_level) ==
    /\ pc = "store"
    /\ returned' = [call |-> "from_mitre_data"]
                    @@ from_mitre_data(mitre_client, group_name, sophistication_level)
    /\ UNCHANGED <<persona_library, mitre_client, persona, attack_history, current_campaign, heap,
                   pc, idx, auto_execute, clock, executed, stealth_calls, unit>>

\* persona.get_attack_chain("full_chain") on the persona just built
GetAttackChain ==
    /\ pc = "store"
    /\ returned.call = "from_mitre_data"
    /\ "persona" \in DOMAIN returned
    /\ \E chain \in get_attack_chain(returned.persona, "full_chain") :
            returned' = [call |-> "get_attack_chain", of |-> returned.persona,
                         chain |-> chain]
    /\ UNCHANGED <<persona_library, mitre_client, persona, attack_history, current_campaign, heap,
                   pc, idx, auto_execute, clock, executed, stealth_calls, unit>>

NextStore ==
    \/ \E bundle \in Bundles : Ingest(bundle)
    \/ \E group_id \in GroupIds : GetTechniquesForGroup(group_id)
    \/ \E group_id \in GroupIds : GetSoftwareForGroup(group_id)
    \/ \E group_name \in GroupNames : FromMitreData(group_name, "advanced")
    \/ GetAttackChain

SpecStore == InitStore /\ [][NextStore]_vars

\* the objects of the bundle the store holds
Ingested == Range(GetList(mitre_client.stix_data, "objects"))

\* the attack-patterns of the bundle that a 'uses' relationship of the
\* bundle links to the source id
UsedTechniques(source_ref) ==
    {target \in Ingested :
        /\ target.type = "attack-pattern"
        /\ \E rel \in Ingested :
            /\ rel.type = "relationship"
            /\ rel.relationship_type = "uses"
            /\ rel.source_ref = source_ref
            /\ rel.target_ref = target.id}

\* the mitre-attack tactics a STIX technique is classified under
TechniqueTactics(tech) ==
    {tech.kill_chain_phases[i].phase_name :
        i \in {k \in 1..Len(tech.kill_chain_phases) :
                    tech.kill_chain_phases[k].kill_chain_name = "mitre-attack"}}

\* the list is strictly ascending in the alphabetical order of tactics
Ascending(tactics) ==
    \A i, j \in 1..Len(tactics) :
        i < j => Position(AlphabeticalTactics, tactics[i])
                    < Position(AlphabeticalTactics, tactics[j])

\* the chain entry names the technique under one of its tactics
References(entry, tech) ==
    /\ entry.technique_name = tech.name
    /\ entry.tactic \in TechniqueTactics(tech)
    /\ entry.technique_id = MitreIdOf(tech)

\* C17: the tactics of a persona built by from_mitre_data are exactly the
\* sorted set of the tactics of the techniques the group uses, and its
\* full_chain has exactly one entry per full-chain tactic of that set, in
\* chain order, each referencing a technique the group uses; for the bundle
\* of one group, one initial-access technique and one tool the tactics are
\* <<"initial-access">> and the chain is one entry referencing the technique
C17_PersonaFromStore ==
    /\ (returned.call = "from_mitre_data" /\ "persona" \in DOMAIN returned) =>
            LET built == returned.persona
                used == UsedTechniques(built.stix_id)
            IN /\ Range(built.tactics) = UNION {TechniqueTactics(tech) : tech \in used}
               /\ Ascending(built.tactics)
               /\ mitre_client.stix_data = SampleBundle =>
                    built.tactics = <<"initial-access">>
    /\ returned.call = "get_attack_chain" =>
            LET built == returned.of
                chain == returned.chain
                used == UsedTechniques(built.stix_id)
                order == tactic_order(built, "full_chain")
                expected == SelectSeq(order, LAMBDA tactic :
                                \E tech \in used : tactic \in TechniqueTactics(tech))
            IN /\ Len(chain) = Len(expected)
               /\ \A i \in 1..Len(chain) :
                    /\ chain[i].tactic = expected[i]
                    /\ \E tech \in used : References(chain[i], tech)
               /\ mitre_client.stix_data = SampleBundle =>
                    /\ Len(chain) = 1
                    /\ References(chain[1], PatternLink)
                    /\ chain[1].technique_id = "T1566.002"

\* the chain of the persona built from the bundle of one group, one
\* technique and one tool
C17_Witness ==
    /\ returned.call = "get_attack_chain"
    /\ mitre_client.stix_data = SampleBundle
    /\ returned.of.tactics = <<"initial-access">>
    /\ Len(returned.of.software) = 1
    /\ Len(returned.chain) = 1
    /\ returned.chain[1].technique_name = "Spearphishing Link"

\* the id names an object of the bundle
Resolves(ref) == \E obj \in Ingested : Get(obj, "id") = ref

\* the item was reached over a 'uses' relationship of the bundle from
\* group_id whose two ends are objects of the bundle
ReachedFrom(group_id, item) ==
    \E rel \in Ingested :
        /\ rel.type = "relationship"
        /\ rel.relationship_type = "uses"
        /\ rel.source_ref = group_id
        /\ rel.target_ref = item.id
        /\ Resolves(rel.source_ref)
        /\ Resolves(rel.target_ref)

\* C18: every technique (software item) returned for a group id is the
\* target of a 'uses' relationship of the bundle from that id and is of the
\* right type, and a relationship whose source or target is no object of
\* the bundle contributes to no answer
C18_EdgesResolve ==
    /\ returned.call = "get_techniques_for_group" =>
            \A i \in 1..Len(returned.techniques) :
                /\ returned.techniques[i].type = "attack-pattern"
                /\ ReachedFrom(returned.group_id, returned.techniques[i])
    /\ returned.call = "get_software_for_group" =>
            \A i \in 1..Len(returned.software) :
                /\ returned.software[i].type \in {"malware", "tool"}
                /\ ReachedFrom(returned.group_id, returned.software[i])

(***************************************************************************)
(* a client that ingests bundles with objects that are not well-formed    *)
(***************************************************************************)
\* an attack-pattern without id, an object without type
PatternWithoutId ==
    [type |-> "attack-pattern", name |-> "No Id",
     kill_chain_phases |-> KillChain(<<"execution">>)]
ObjectWithoutType == [id |-> "x-unknown--1", name |-> "No Type"]

MalformedPool ==
    <<GroupAPT29, PatternLink, PatternWithoutId, ObjectWithoutType, NotADict,
      MalwareCobaltStrike,
      Uses("relationship--1", "intrusion-set--1", "attack-pattern--1")>>

MalformedBundles ==
    {BundleOf(MalformedPool, objects) : objects \in SUBSET Range(MalformedPool)}

NextIngest == \E bundle \in MalformedBundles : Ingest(bundle)

SpecIngest == InitStore /\ [][NextIngest]_vars

\* every object of the bundle is a dict with an id and a type
WellFormed(bundle) ==
    \A obj \in Range(bundle.objects) :
        IsDict(obj) /\ "id" \in DOMAIN obj /\ "type" \in DOMAIN obj

\* the three indexes of the store
Indexes(client) ==
    <<client._objects_by_id, client._objects_by_type, client._relationships>>

\* C19: ingesting a bundle with an object that lacks its id or its type
\* fails with a parse error and leaves the by-id index, the by-type index
\* and the relationship list as they were
C19_MalformedRejected ==
    [][~WellFormed(mitre_client'.stix_data) =>
        /\ "raised" \in DOMAIN returned'
        /\ Indexes(mitre_client') = Indexes(mitre_client)]_vars

\* the list holds exactly the objects of the set, each once
HoldsExactly(list, objects) ==
    /\ Range(list) = objects
    /\ Len(list) = Cardinality(objects)

\* the answers of the queries on a client
Answers(client) ==
    [techniques |-> [g \in GroupIds |-> get_techniques_for_group(client, g)],
     software |-> [g \in GroupIds |-> get_software_for_group(client, g)],
     groups |-> [n \in GroupNames |-> get_group_by_name(client, n)]]

\* C20: ingest replaces the store wholesale and is idempotent: the by-id
\* index, the by-type index and the relationship list hold exactly the
\* objects of the bundle ingested last and nothing of an earlier bundle, and
\* ingesting the same bundle again changes neither the indexes nor any
\* query answer
C20_IngestReplaces ==
    /\ [](/\ DOMAIN mitre_client._objects_by_id = {obj.id : obj \in Ingested}
          /\ \A id \in DOMAIN mitre_client._objects_by_id :
                /\ mitre_client._objects_by_id[id] \in Ingested
                /\ mitre_client._objects_by_id[id].id = id
          /\ DOMAIN mitre_client._objects_by_type = {obj.type : obj \in Ingested}
          /\ \A obj_type \in DOMAIN mitre_client._objects_by_type :
                HoldsExactly(mitre_client._objects_by_type[obj_type],
                             {obj \in Ingested : obj.type = obj_type})
          /\ HoldsExactly(mitre_client._relationships,
                          {obj \in Ingested : obj.type = "relationship"}))
    /\ [][(/\ returned'.call = "_parse_stix_data"
           /\ mitre_client'.stix_data = mitre_client.stix_data) =>
                /\ Indexes(mitre_client') = Indexes(mitre_client)
                /\ Answers(mitre_client') = Answers(mitre_client)]_vars

\* a bundle without the group and the malware of the bundle before it
C20_Witness ==
    /\ returned.call = "_parse_stix_data"
    /\ DOMAIN mitre_client._objects_by_id = {"attack-pattern--2", "relationship--5"}
    /\ DOMAIN mitre_client._objects_by_type = {"attack-pattern", "relationship"}
    /\ Len(mitre_client._relationships) = 1

(***************************************************************************)
(* a client whose bundles hold several groups and revised objects          *)
(***************************************************************************)
Reverse(list) == [i \in 1..Len(list) |-> list[Len(list) + 1 - i]]

\* a second group named like an alias of APT29, a third one with the alias
\* APT29, a later version of the group and of the technique under the same
\* id, and a malware named like a group
GroupPool ==
    <<GroupAPT29,
      [type |-> "intrusion-set", id |-> "intrusion-set--2", name |-> "Cozy Bear"],
      [type |-> "intrusion-set", id |-> "intrusion-set--3", name |-> "The Dukes",
       aliases |-> <<"Nobelium", "APT29">>],
      [type |-> "intrusion-set", id |-> "intrusion-set--1", name |-> "APT29",
       aliases |-> <<"Midnight Blizzard">>],
      PatternLink,
      [type |-> "attack-pattern", id |-> "attack-pattern--1",
       name |-> "Spearphishing Link (revised)"],
      [type |-> "malware", id |-> "malware--2", name |-> "Cozy Bear"]>>

\* the objects in file order or in the opposite order
GroupBundles ==
    {BundleOf(GroupPool, objects) : objects \in SUBSET Range(GroupPool)}
    \cup {BundleOf(Reverse(GroupPool), objects) : objects \in SUBSET Range(GroupPool)}

\* client.get_group_by_name(name)
GetGroupByName(name) ==
    /\ pc = "store"
    /\ returned' = [call |-> "get_group_by_name", name |-> name,
                    group |-> get_group_by_name(mitre_client, name)]
    /\ UNCHANGED <<persona_library, mitre_client, persona, attack_history, current_campaign, heap,
                   pc, idx, auto_execute, clock, executed, stealth_calls, unit>>

NextGroups ==
    \/ \E bundle \in GroupBundles : Ingest(bundle)
    \/ \E name \in GroupNames : GetGroupByName(name)

SpecGroups == InitStore /\ [][NextGroups]_vars

\* the entities the by-type buckets hold, as <<bucket, position>>
Bucketed ==
    {<<obj_type, i>> : obj_type \in DOMAIN mitre_client._objects_by_type,
                       i \in 1..Len(ObjectPool) + Len(GroupPool)}
EntityAt(slot) == mitre_client._objects_by_type[slot[1]][slot[2]]
Held == {slot \in Bucketed : slot[2] <= Len(mitre_client._objects_by_type[slot[1]])}

\* C21: entity ids are unique within the store: no two entities of the
\* by-type buckets have the same id, and every entity of a bucket is the
\* entity the by-id index holds for its id
C21_UniqueIds ==
    /\ \A a, b \in Held : a # b => EntityAt(a).id # EntityAt(b).id
    /\ \A a \in Held :
        /\ EntityAt(a).id \in DOMAIN mitre_client._objects_by_id
        /\ mitre_client._objects_by_id[EntityAt(a).id] = EntityAt(a)

\* the position of the object in the bundle the store holds
FilePosition(obj) ==
    CHOOSE i \in 1..Len(mitre_client.stix_data.objects) :
        mitre_client.stix_data.objects[i] = obj

\* the object is a group called `name`, whatever the case of the letters
Called(obj, name) ==
    /\ obj.type = "intrusion-set"
    /\ \/ Lower(obj.name) = Lower(name)
       \/ "aliases" \in DOMAIN obj /\ Lower(name) \in {Lower(alias) : alias \in Range(obj.aliases)}

\* C22: get_group_by_name(name) returns None exactly when no group of the
\* bundle is called `name` by its name or an alias, ignoring case; otherwise
\* it returns a group called `name`, the one that comes first in the bundle
C22_FirstGroupByName ==
    returned.call = "get_group_by_name" =>
        LET called == {obj \in Ingested : Called(obj, returned.name)} IN
        IF called = {} THEN returned.group = None
        ELSE /\ returned.group \in called
             /\ \A obj \in called : FilePosition(returned.group) <= FilePosition(obj)

\* asked in capitals for an alias of the first group of the bundle, which
\* is the name of the second
C22_Witness ==
    /\ returned.call = "get_group_by_name"
    /\ returned.name = "COZY BEAR"
    /\ Len(mitre_client.stix_data.objects) >= 2
    /\ returned.group = mitre_client.stix_data.objects[1]
    /\ returned.group.name = "APT29"
    /\ mitre_client.stix_data.objects[2].name = "Cozy Bear"
    /\ mitre_client.stix_data.objects[2].type = "intrusion-set"

(***************************************************************************)
(* persona_generator.py: the heuristic inference                           *)
(***************************************************************************)
\* obj.get(key, '')
GetText(obj, key) == IF key \in DOMAIN obj THEN obj[key] ELSE ""

\* the descriptions of the groups used
StateSponsored == "Russian state-sponsored espionage group"
CriminalGang == "Criminal gang after bank payment data; destructive ransomware"

\* the keywords of the generator's lists that occur in text.lower()
Keywords(text) ==
    CASE text = "APT29" -> {"apt"}
      [] text = "The Dukes" -> {"uk"}
      [] text = "Custom Loader" -> {"custom", "us"}
      [] text = StateSponsored ->
            {"espionage", "russia", "russian", "state-sponsored", "us"}
      [] text = CriminalGang ->
            {"bank", "criminal", "destructive", "gang", "payment", "ransomware"}
      [] OTHER -> {}

\* len(text)
Chars(text) ==
    CASE text = StateSponsored -> 39
      [] text = CriminalGang -> 61
      [] OTHER -> 0

\* the keywords that occur in a text joined from the given parts
KeywordsIn(parts) == UNION {Keywords(part) : part \in parts}

\* sum(1 for tech in techniques if tech.get('external_id', '') in ids)
CountIn(techniques, ids) ==
    Cardinality({i \in 1..Len(techniques) : GetExternalId(techniques[i], "") \in ids})

_infer_sophistication(group, techniques, software) ==
    LET combined_text ==
            KeywordsIn({GetText(group, "name"), GetText(group, "description")}
                       \cup Range(GetList(group, "aliases")))
        score ==
            (IF Len(techniques) > 80 THEN 3
             ELSE IF Len(techniques) > 50 THEN 2
             ELSE IF Len(techniques) > 20 THEN 1 ELSE 0)
            + (IF Len(software) > 20 THEN 2 ELSE IF Len(software) > 10 THEN 1 ELSE 0)
            + (IF combined_text \cap
                    {"apt", "government", "state-sponsored", "nation", "military",
                     "intelligence", "ministry", "bureau", "unit 61398", "pla"} # {}
               THEN 2 ELSE 0)
            + (IF CountIn(techniques, {"T1055", "T1027", "T1140", "T1134", "T1574"}) > 0
               THEN 1 ELSE 0)
            + (IF \E i \in 1..Len(software) :
                    "custom" \in Keywords(GetText(software[i], "name"))
               THEN 1 ELSE 0)
    IN IF score >= 6 THEN "advanced"
       ELSE IF score >= 4 THEN "high"
       ELSE IF score >= 2 THEN "medium"
       ELSE "low"

_infer_stealth_preference(group, techniques) ==
    LET stealth_count ==
            CountIn(techniques, {"T1027", "T1140", "T1036", "T1112", "T1564"})
        noisy_count == CountIn(techniques, {"T1486", "T1490", "T1489", "T1561"})
        description == Keywords(GetText(group, "description"))
        stealth_score ==
            (IF stealth_count > noisy_count * 2 THEN 2
             ELSE IF stealth_count > noisy_count THEN 1
             ELSE IF noisy_count > stealth_count * 2 THEN -2 ELSE 0)
            + (IF description \cap {"covert", "stealth", "undetected", "persistent"} # {}
               THEN 1 ELSE 0)
            - (IF description \cap {"destructive", "ransomware", "wiper", "disruptive"} # {}
               THEN 1 ELSE 0)
    IN IF stealth_score >= 2 THEN "stealthy"
       ELSE IF stealth_score <= -1 THEN "noisy"
       ELSE "balanced"

_infer_attack_speed(group, techniques) ==
    LET fast_count == CountIn(techniques, {"T1059", "T1569", "T1053"})
        slow_count == CountIn(techniques, {"T1547", "T1176", "T1137"})
        description == Keywords(GetText(group, "description"))
    IN IF description \cap {"rapid", "automated", "scripted", "fast"} # {} THEN "fast"
       ELSE IF description \cap {"patient", "long-term", "persistent", "dormant"} # {}
       THEN "slow"
       ELSE IF fast_count > slow_count * 2 THEN "fast"
       ELSE IF slow_count > fast_count THEN "slow"
       ELSE "moderate"

\* _load_industry_keywords, in the order of the dict
IndustryKeywords ==
    <<[name |-> "Government",
       keywords |-> {"government", "military", "defense", "embassy", "diplomatic",
                     "ministry", "agency"}],
      [name |-> "Financial",
       keywords |-> {"bank", "financial", "finance", "payment", "credit", "monetary",
                     "treasury"}],
      [name |-> "Technology",
       keywords |-> {"technology", "software", "tech", "IT", "computer",
                     "semiconductor", "cloud"}],
      [name |-> "Healthcare",
       keywords |-> {"healthcare", "hospital", "medical", "pharmaceutical", "health",
                     "patient"}],
      [name |-> "Energy",
       keywords |-> {"energy", "oil", "gas", "electric", "power", "utility",
                     "petroleum", "nuclear"}],
      [name |-> "Telecommunications",
       keywords |-> {"telecom", "telecommunication", "mobile", "cellular", "phone",
                     "network"}],
      [name |-> "Manufacturing",
       keywords |-> {"manufacturing", "industrial", "factory", "production",
                     "automotive"}],
      [name |-> "Education",
       keywords |-> {"education", "university", "school", "academic", "research",
                     "student"}],
      [name |-> "Media",
       keywords |-> {"media", "journalism", "news", "broadcast", "television",
                     "radio", "press"}],
      [name |-> "Retail",
       keywords |-> {"retail", "shopping", "store", "commerce", "sales", "consumer"}],
      [name |-> "Aviation",
       keywords |-> {"aviation", "airline", "aircraft", "aerospace", "flight"}],
      [name |-> "Maritime",
       keywords |-> {"maritime", "shipping", "port", "naval", "ocean"}],
      [name |-> "Critical Infrastructure",
       keywords |-> {"infrastructure", "critical", "transportation", "water", "dam"}]>>

\* _load_region_keywords, in the order of the dict
RegionKeywords ==
    <<[name |-> "North America",
       keywords |-> {"united states", "america", "us", "canada", "mexico",
                     "north america"}],
      [name |-> "Europe",
       keywords |-> {"europe", "european", "eu", "uk", "britain", "germany", "france",
                     "nato"}],
      [name |-> "Asia Pacific",
       keywords |-> {"asia", "china", "japan", "korea", "singapore", "australia",
                     "pacific"}],
      [name |-> "Middle East",
       keywords |-> {"middle east", "israel", "iran", "saudi", "uae", "turkey", "gulf"}],
      [name |-> "Africa", keywords |-> {"africa", "south africa", "nigeria", "egypt"}],
      [name |-> "South America",
       keywords |-> {"south america", "brazil", "argentina", "colombia"}],
      [name |-> "Russia/CIS",
       keywords |-> {"russia", "russian", "soviet", "ukraine", "belarus", "cis"}],
      [name |-> "Global",
       keywords |-> {"global", "worldwide", "international", "multinational"}]>>

\* the names of the table's entries with a keyword in the text, in table order
Detected(table, combined_text) ==
    LET hits == SelectSeq(table, LAMBDA entry : entry.keywords \cap combined_text # {})
    IN [i \in 1..Len(hits) |-> hits[i].name]

_infer_target_industries(description, aliases) ==
    LET detected_industries ==
            Detected(IndustryKeywords, KeywordsIn({description} \cup Range(aliases)))
    IN IF detected_industries # <<>> THEN detected_industries
       ELSE <<"Technology", "Government">>

_infer_target_regions(description, aliases) ==
    LET detected_regions ==
            Detected(RegionKeywords, KeywordsIn({description} \cup Range(aliases)))
    IN IF detected_regions # <<>> THEN detected_regions ELSE <<"Global">>

\* _infer_motivations: list(set(motivations)), as the set
_infer_motivations(group, techniques, description) ==
    LET desc_lower == Keywords(description)
        motivations ==
            (IF CountIn(techniques, {"T1005", "T1041", "T1486"}) > 0
             THEN {"financial"} ELSE {})
            \cup (IF CountIn(techniques, {"T1005", "T1041", "T1056", "T1113"}) > 0
                  THEN {"espionage"} ELSE {})
            \cup (IF CountIn(techniques, {"T1486", "T1490", "T1561"}) > 0
                  THEN {"destruction"} ELSE {})
            \cup (IF desc_lower \cap {"financial", "money", "bank", "payment"} # {}
                  THEN {"financial"} ELSE {})
            \cup (IF desc_lower \cap {"espionage", "intelligence", "surveillance"} # {}
                  THEN {"espionage"} ELSE {})
            \cup (IF desc_lower \cap {"disrupt", "destroy", "damage"} # {}
                  THEN {"disruption"} ELSE {})
    IN IF motivations # {} THEN motivations ELSE {"espionage"}

Max(a, b) == IF a > b THEN a ELSE b

\* the operational parameters, in hundredths
_calculate_detection_sensitivity(stealth, sophistication) ==
    LET base_sensitivity ==
            50 + (IF stealth = "stealthy" THEN 30
                  ELSE IF stealth = "noisy" THEN -30 ELSE 0)
               + (IF sophistication = "advanced" THEN 20
                  ELSE IF sophistication = "low" THEN -20 ELSE 0)
    IN Max(10, Min(95, base_sensitivity))

_calculate_persistence_priority(techniques) ==
    LET persistence_count == CountIn(techniques, {"T1547", "T1053", "T1543", "T1574"})
    IN IF Len(techniques) > 0
       THEN Min(95, 50 + (200 * persistence_count) \div Len(techniques))
       ELSE 70

_calculate_exfiltration_priority(techniques, motivations) ==
    LET exfil_count == CountIn(techniques, {"T1041", "T1048", "T1052", "T1567"})
        base_priority ==
            50 + (IF "financial" \in motivations \/ "espionage" \in motivations
                  THEN 30 ELSE 0)
               - (IF "destruction" \in motivations THEN 20 ELSE 0)
               + (IF Len(techniques) > 0
                  THEN (200 * exfil_count) \div Len(techniques) ELSE 0)
    IN Max(10, Min(95, base_priority))

_calculate_max_techniques(sophistication) ==
    CASE sophistication = "advanced" -> 7
      [] sophistication = "high" -> 5
      [] sophistication = "medium" -> 4
      [] OTHER -> 3

_calculate_success_rate(sophistication) ==
    CASE sophistication = "advanced" -> 85
      [] sophistication = "high" -> 75
      [] sophistication = "medium" -> 65
      [] sophistication = "low" -> 55
      [] OTHER -> 70

\* _generate_description for descriptions of at most 200 characters: the
\* description itself, or a sentence made of the motivations and of the
\* first three industries when it is empty
_generate_description(group, motivations, industries) ==
    IF GetText(group, "description") # ""
    THEN [text |-> GetText(group, "description")]
    ELSE [motivations |-> motivations,
          industries |-> SubSeq(industries, 1, Min(3, Len(industries)))]

_calculate_confidence_score(group, techniques, software) ==
    LET score ==
            50 + (IF Len(techniques) > 50 THEN 20
                  ELSE IF Len(techniques) > 20 THEN 10
                  ELSE IF Len(techniques) < 5 THEN -20 ELSE 0)
               + (IF Len(software) > 10 THEN 10
                  ELSE IF Len(software) < 2 THEN -10 ELSE 0)
               + (IF Chars(GetText(group, "description")) > 500 THEN 10
                  ELSE IF Chars(GetText(group, "description")) < 100 THEN -10 ELSE 0)
               + (IF Len(GetList(group, "aliases")) > 2 THEN 5 ELSE 0)
    IN Max(10, Min(95, score))

\* generate_persona_config(group): the configuration, or the KeyError of
\* group['id']
generate_persona_config(client, group) ==
    LET description == GetText(group, "description")
        aliases == GetList(group, "aliases")
        techniques == get_techniques_for_group(client, group.id)
        software == get_software_for_group(client, group.id)
        sophistication == _infer_sophistication(group, techniques, software)
        stealth == _infer_stealth_preference(group, techniques)
        target_industries == _infer_target_industries(description, aliases)
        motivations == _infer_motivations(group, techniques, description)
    IN IF "id" \notin DOMAIN group THEN Raised("KeyError: 'id'")
       ELSE [config |->
                [sophistication_level |-> sophistication,
                 stealth_preference |-> stealth,
                 attack_speed |-> _infer_attack_speed(group, techniques),
                 target_industries |-> target_industries,
                 target_regions |-> _infer_target_regions(description, aliases),
                 motivations |-> motivations,
                 detection_sensitivity |->
                    _calculate_detection_sensitivity(stealth, sophistication),
                 persistence_priority |-> _calculate_persistence_priority(techniques),
                 data_exfiltration_priority |->
                    _calculate_exfiltration_priority(techniques, motivations),
                 max_techniques_per_phase |-> _calculate_max_techniques(sophistication),
                 description_override |->
                    _generate_description(group, motivations, target_industries),
                 preferred_tools |->
                    [i \in 1..Min(5, Len(software)) |-> GetText(software[i], "name")],
                 technique_success_rate |-> _calculate_success_rate(sophistication),
                 generation_method |-> "automated",
                 confidence_score |->
                    _calculate_confidence_score(group, techniques, software)]]

(***************************************************************************)
(* persona_library.py: the library of personas                             *)
(***************************************************************************)
\* the heap may hold this many persona objects
MaxPersonas == 2

\* two entries of the table of pre-configured personas
PERSONA_CONFIGS ==
    [APT29 |->
        [sophistication_level |-> "advanced", stealth_preference |-> "stealthy",
         attack_speed |-> "slow",
         target_industries |-> <<"Government", "Technology", "Energy", "Healthcare",
                                 "Think Tanks">>,
         target_regions |-> <<"North America", "Europe", "Asia">>,
         motivations |-> {"espionage", "intelligence_gathering"},
         preferred_tools |-> <<"PowerShell Empire", "Cobalt Strike", "Custom Malware">>,
         description_override |-> [text |-> "Russian state-sponsored group (SVR)"],
         detection_sensitivity |-> 90, persistence_priority |-> 95,
         data_exfiltration_priority |-> 90, max_techniques_per_phase |-> 5],
     APT28 |->
        [sophistication_level |-> "advanced", stealth_preference |-> "balanced",
         attack_speed |-> "moderate",
         target_industries |-> <<"Government", "Defense", "Aerospace", "Media",
                                 "Think Tanks">>,
         target_regions |-> <<"Europe", "North America", "Middle East", "Asia">>,
         motivations |-> {"espionage", "information_warfare", "disruption"},
         preferred_tools |-> <<"Sofacy", "X-Agent", "X-Tunnel", "Mimikatz">>,
         description_override |-> [text |-> "Russian military intelligence (GRU)"],
         detection_sensitivity |-> 60, persistence_priority |-> 80,
         data_exfiltration_priority |-> 70, max_techniques_per_phase |-> 4]]

\* the dict without the keys
Without(dict, keys) == [key \in DOMAIN dict \ keys |-> dict[key]]

\* PersonaLibrary(mitre_client, cache_personas, auto_generate)
PersonaLibrary(cache_personas, auto_generate) ==
    [_personas_cache |-> IF cache_personas THEN [name \in {} |-> NullRef] ELSE None,
     _custom_personas |-> [name \in {} |-> NullRef],
     _auto_generate |-> auto_generate]

\* the keyword arguments of the configuration and the override of the
\* description, on what from_mitre_data built
Configured(built, config) ==
    IF "raised" \in DOMAIN built THEN built
    ELSE [persona |->
            Without(config, {"description_override", "preferred_tools"})
            @@ (IF "description_override" \in DOMAIN config
                THEN [description |-> config.description_override]
                     @@ built.persona
                ELSE built.persona)]

\* AttackerPersona.from_mitre_data(client, name, **config) and the override
\* of the description that follows it in get_persona
PersonaFromConfig(client, name, config) ==
    Configured(from_mitre_data(client, name,
                    IF "sophistication_level" \in DOMAIN config
                    THEN config.sophistication_level ELSE "medium"),
               config)

\* what get_persona builds for a name it finds neither in the cache nor
\* among the custom personas: the persona, or the error raised
LoadPersona(library, client, name) ==
    IF name \notin DOMAIN PERSONA_CONFIGS
    THEN LET group == get_group_by_name(client, name) IN
         IF group = None THEN Raised("Unknown persona")
         ELSE IF library._auto_generate
         THEN LET generated == generate_persona_config(client, group) IN
              IF "raised" \in DOMAIN generated THEN generated
              ELSE PersonaFromConfig(client, name,
                        Without(generated.config,
                                {"generation_method", "confidence_score"}))
         ELSE PersonaFromConfig(client, name, [key \in {} |-> None])
    ELSE PersonaFromConfig(client, name, PERSONA_CONFIGS[name])

\* a reference handed back, with the library and the heap the call leaves
Handed(library, h, ref) == [library |-> library, heap |-> h, ref |-> ref]

\* get_persona that never fills the cache
GetPersonaUncached(library, client, h, name) ==
    IF library._personas_cache # None /\ name \in DOMAIN library._personas_cache
    THEN Handed(library, h, library._personas_cache[name])
    ELSE IF name \in DOMAIN library._custom_personas
    THEN Handed(library, h, library._custom_personas[name])
    ELSE LET loaded == LoadPersona(library, client, name) IN
         IF "raised" \in DOMAIN loaded
         THEN [library |-> library, heap |-> h] @@ loaded
         ELSE Handed(library, Append(h, loaded.persona), Len(h) + 1)

\* get_persona that enters the name in the cache before it loads the persona
GetPersonaCachingMisses(library, client, h, name) ==
    IF library._personas_cache # None /\ name \in DOMAIN library._personas_cache
    THEN Handed(library, h, library._personas_cache[name])
    ELSE IF name \in DOMAIN library._custom_personas
    THEN Handed(library, h, library._custom_personas[name])
    ELSE LET loaded == LoadPersona(library, client, name)
             entered == IF library._personas_cache # None
                        THEN [library EXCEPT !._personas_cache =
                                    (name :> (Len(h) + 1)) @@ @]
                        ELSE library
         IN IF "raised" \in DOMAIN loaded
            THEN [library |-> entered, heap |-> h] @@ loaded
            ELSE Handed(entered, Append(h, loaded.persona), Len(h) + 1)

\* the end of get_persona: the persona loaded is entered in the cache,
\* when there is one, and returned; an error raised on loading is passed on
Kept(library, h, name, loaded) ==
    IF "raised" \in DOMAIN loaded
    THEN [library |-> library, heap |-> h] @@ loaded
    ELSE Handed(IF library._personas_cache # None
                THEN [library EXCEPT !._personas_cache =
                            (name :> (Len(h) + 1)) @@ @]
                ELSE library,
                Append(h, loaded.persona), Len(h) + 1)

\* PersonaLibrary.get_persona(name) on the library and the heap: the
\* library and the heap after the call, and the reference returned or the
\* error raised
LibraryGetPersona(library, client, h, name) ==
    IF library._personas_cache # None /\ name \in DOMAIN library._personas_cache
    THEN Handed(library, h, library._personas_cache[name])
    ELSE IF name \in DOMAIN library._custom_personas
    THEN Handed(library, h, library._custom_personas[name])
    ELSE Kept(library, h, name, LoadPersona(library, client, name))

\* f"custom--{name.lower().replace(' ', '-')}" for the names used
CustomStixId(name) ==
    CASE name = "Custom 1" -> "custom--custom-1"
      [] name = "APT29" -> "custom--apt29"
      [] OTHER -> "custom--"

\* f"C{n:04d}"
CustomMitreId(n) ==
    CASE n = 0 -> "C0000"
      [] n = 1 -> "C0001"
      [] n = 2 -> "C0002"
      [] OTHER -> "C0003"

\* AttackerPersona(stix_id=..., mitre_id=..., name=name, ...) as
\* create_custom_persona calls it, from a base persona or from scratch
CustomPersona(library, name, base, attributes) ==
    LET identity == [stix_id |-> CustomStixId(name),
                     mitre_id |-> CustomMitreId(Cardinality(DOMAIN library._custom_personas)),
                     name |-> name]
        defaults == [tactics |-> <<>>, techniques |-> <<>>, software |-> <<>>,
                     sophistication_level |-> "medium",
                     stealth_preference |-> "balanced",
                     technique_success_rate |-> 70, preferred_tools |-> <<>>]
    IN IF base = None THEN identity @@ attributes @@ defaults
       ELSE identity
            @@ [key \in DOMAIN attributes \cap
                    {"description", "sophistication_level", "stealth_preference",
                     "attack_speed", "target_industries", "target_regions",
                     "motivations", "preferred_tools"} |-> attributes[key]]
            @@ [key \in DOMAIN base \cap
                    {"aliases", "description", "tactics", "techniques", "software",
                     "sophistication_level", "stealth_preference", "attack_speed",
                     "target_industries", "target_regions", "motivations",
                     "preferred_tools"} |-> base[key]]
            @@ defaults

\* the end of create_custom_persona, after the base persona was looked up:
\* the custom persona is made and entered under its name
Entered(looked, name, base_persona, attributes) ==
    IF "raised" \in DOMAIN looked THEN looked
    ELSE Handed([looked.library EXCEPT !._custom_personas =
                    (name :> (Len(looked.heap) + 1)) @@ @],
                Append(looked.heap,
                       CustomPersona(looked.library, name,
                            IF base_persona = NoneStr THEN None
                            ELSE looked.heap[looked.ref], attributes)),
                Len(looked.heap) + 1)

\* PersonaLibrary.create_custom_persona(name, base_persona, **attributes)
create_custom_persona(library, client, h, name, base_persona, attributes) ==
    Entered(IF base_persona = NoneStr THEN Handed(library, h, NullRef)
            ELSE LibraryGetPersona(library, client, h, base_persona),
            name, base_persona, attributes)

\* PersonaLibrary.clear_cache()
clear_cache(library) ==
    IF library._personas_cache # None
    THEN [library EXCEPT !._personas_cache = [name \in {} |-> NullRef]]
    ELSE library

(***************************************************************************)
(* a library and an agent whose callers keep the personas handed to them   *)
(***************************************************************************)
\* pre-configured and in the store, pre-configured and not in the store, an
\* alias of a group of the store, a custom name, an unknown name
LibraryNames == {"APT29", "APT28", "Cozy Bear", "Custom 1", "Nobody"}
CustomNames == {"Custom 1", "APT29"}
BaseNames == {NoneStr, "APT29", "Nobody"}
CustomAttributes == {[sophistication_level |-> "high"]}

\* the caller's notes: the persona each name was resolved to since the
\* cache was last cleared, the custom persona made under each name, the
\* names a custom persona was made under since they were last resolved, and
\* whether the cache was ever cleared
NoNotes ==
    [got |-> [name \in {} |-> NullRef], made |-> [name \in {} |-> NullRef],
     remade |-> {}, cleared |-> FALSE]

Resolved(notes, name, ref) ==
    [notes EXCEPT !.got = (name :> ref) @@ @, !.remade = @ \ {name}]

InitLibrary ==
    /\ \E cache_personas, auto_generate \in BOOLEAN :
            persona_library = PersonaLibrary(cache_personas, auto_generate)
    /\ mitre_client = MITREStixClient(SampleBundle)
    /\ persona = None
    /\ attack_history = <<>>
    /\ current_campaign = NullRef
    /\ heap = <<>>
    /\ pc = "library"
    /\ idx = 0
    /\ auto_execute = FALSE
    /\ returned = [call |-> "__init__"]
    /\ clock = 0
    /\ executed = <<>>
    /\ stealth_calls = <<>>
    /\ unit = NoNotes

\* library.get_persona(name)
GetPersona(name) ==
    /\ pc = "library"
    /\ \E got \in {LibraryGetPersona(persona_library, mitre_client, heap, name)} :
        /\ Len(got.heap) <= MaxPersonas
        /\ persona_library' = got.library
        /\ heap' = got.heap
        /\ returned' = [call |-> "get_persona", name |-> name]
                       @@ Without(got, {"library", "heap"})
        /\ unit' = IF "ref" \in DOMAIN got THEN Resolved(unit, name, got.ref) ELSE unit
    /\ UNCHANGED <<mitre_client, persona, attack_history, current_campaign, pc, idx,
                   auto_execute, clock, executed, stealth_calls>>

\* library.create_custom_persona(name, base_persona, **attributes)
CreateCustomPersona(name, base_persona, attributes) ==
    /\ pc = "library"
    /\ \E got \in {create_custom_persona(persona_library, mitre_client, heap, name,
                                         base_persona, attributes)} :
       \E based \in {IF base_persona # NoneStr /\ "ref" \in DOMAIN got
                     THEN Resolved(unit, base_persona,
                                   LibraryGetPersona(persona_library, mitre_client,
                                                     heap, base_persona).ref)
                     ELSE unit} :
        /\ Len(got.heap) <= MaxPersonas
        /\ persona_library' = got.library
        /\ heap' = got.heap
        /\ returned' = [call |-> "create_custom_persona", name |-> name]
                       @@ Without(got, {"library", "heap"})
        /\ unit' = IF "ref" \in DOMAIN got
                   THEN [based EXCEPT !.made = (name :> got.ref) @@ @,
                                      !.remade = @ \cup {name}]
                   ELSE unit
    /\ UNCHANGED <<mitre_client, persona, attack_history, current_campaign, pc, idx,
                   auto_execute, clock, executed, stealth_calls>>

\* library.clear_cache()
ClearCache ==
    /\ pc = "library"
    /\ persona_library' = clear_cache(persona_library)
    /\ returned' = [call |-> "clear_cache"]
    /\ unit' = [unit EXCEPT !.got = [name \in {} |-> NullRef], !.cleared = TRUE]
    /\ UNCHANGED <<mitre_client, persona, attack_history, current_campaign, heap, pc,
                   idx, auto_execute, clock, executed, stealth_calls>>

\* agent.set_persona(persona_name) on an agent that holds the library
SetPersonaFromLibrary(persona_name) ==
    /\ pc = "library"
    /\ \E got \in {LibraryGetPersona(persona_library, mitre_client, heap, persona_name)} :
        /\ Len(got.heap) <= MaxPersonas
        /\ persona_library' = got.library
        /\ heap' = got.heap
        /\ returned' = [call |-> "set_persona", name |-> persona_name]
                       @@ Without(got, {"library", "heap", "ref"})
        /\ persona' = IF "ref" \in DOMAIN got THEN got.heap[got.ref] ELSE persona
        /\ unit' = IF "ref" \in DOMAIN got
                   THEN Resolved(unit, persona_name, got.ref) ELSE unit
    /\ UNCHANGED <<mitre_client, attack_history, current_campaign, pc, idx,
                   auto_execute, clock, executed, stealth_calls>>

NextLibrary ==
    \/ \E name \in LibraryNames : GetPersona(name)
    \/ \E name \in CustomNames, base_persona \in BaseNames,
          attributes \in CustomAttributes :
            CreateCustomPersona(name, base_persona, attributes)
    \/ ClearCache
    \/ \E name \in LibraryNames : SetPersonaFromLibrary(name)

SpecLibrary == InitLibrary /\ [][NextLibrary]_vars

\* the library caches personas
Caching(library) == library._personas_cache # None

\* the object did not exist before the step
NewInstance(ref) == ref \notin 1..Len(heap)

\* C23 as stated: with caching enabled a get_persona(name) returns the
\* instance the name was resolved to before, as long as the cache was not
\* cleared in between; with caching disabled every get_persona returns a
\* new instance; clear_cache empties the cache, and the first
\* get_persona(name) after it returns a new instance
C23_CacheIdentity ==
    /\ [][(returned'.call = "get_persona" /\ "ref" \in DOMAIN returned') =>
            /\ (Caching(persona_library) /\ returned'.name \in DOMAIN unit.got) =>
                    returned'.ref = unit.got[returned'.name]
            /\ ~Caching(persona_library) => NewInstance(returned'.ref)
            /\ (unit.cleared /\ returned'.name \notin DOMAIN unit.got) =>
                    NewInstance(returned'.ref)]_vars
    /\ [][(returned'.call = "clear_cache" /\ Caching(persona_library)) =>
            DOMAIN persona_library'._personas_cache = {}]_vars

\* C23 as amended: with caching enabled a get_persona(name) returns the
\* instance the name was resolved to before, as long as neither the cache
\* was cleared nor a custom persona was created under the name in between;
\* for a name no custom persona was created under, every get_persona
\* returns a new instance when caching is disabled, and so does the first
\* get_persona(name) after clear_cache, which empties the cache
C23_CacheIdentityBuilt ==
    /\ [][(returned'.call = "get_persona" /\ "ref" \in DOMAIN returned') =>
            LET name == returned'.name IN
            /\ (/\ Caching(persona_library)
                /\ name \in DOMAIN unit.got
                /\ name \notin unit.remade) => returned'.ref = unit.got[name]
            /\ (~Caching(persona_library) /\ name \notin DOMAIN unit.made) =>
                    NewInstance(returned'.ref)
            /\ (/\ unit.cleared
                /\ name \notin DOMAIN unit.got
                /\ name \notin DOMAIN unit.made) => NewInstance(returned'.ref)]_vars
    /\ [][(returned'.call = "clear_cache" /\ Caching(persona_library)) =>
            DOMAIN persona_library'._personas_cache = {}]_vars

\* APT29 resolved, the cache cleared, APT29 resolved again: two instances,
\* the second one in the cache
C23_Witness ==
    /\ returned.call = "get_persona"
    /\ returned.name = "APT29"
    /\ Caching(persona_library)
    /\ unit.cleared
    /\ Len(heap) = 2
    /\ heap[1].name = "APT29"
    /\ heap[2].name = "APT29"
    /\ returned.ref = 2
    /\ persona_library._personas_cache["APT29"] = 2
    /\ DOMAIN unit.made = {}

\* C24: once create_custom_persona(name, ...) has returned a persona, every
\* get_persona(name) returns that instance
C24_CustomPersonaKept ==
    (returned.call = "get_persona" /\ returned.name \in DOMAIN unit.made) =>
        /\ "ref" \in DOMAIN returned
        /\ returned.ref = unit.made[returned.name]

\* the name resolves to nothing: it is not in the cache, no custom persona
\* has it, and no group of the store is called by it
Miss(name) ==
    /\ ~(Caching(persona_library) /\ name \in DOMAIN persona_library._personas_cache)
    /\ name \notin DOMAIN persona_library._custom_personas
    /\ ~\E obj \in Ingested : Called(obj, name)

\* C25: set_persona(name) for a name that resolves to nothing raises, leaves
\* the agent's persona as it was and puts no entry for the name in the cache
C25_MissChangesNothing ==
    [][(returned'.call = "set_persona" /\ Miss(returned'.name)) =>
            /\ "raised" \in DOMAIN returned'
            /\ persona' = persona
            /\ Caching(persona_library') =>
                    returned'.name \notin DOMAIN persona_library'._personas_cache
            /\ persona_library'._custom_personas = persona_library._custom_personas
            /\ heap' = heap]_vars

\* an agent that holds APT29 asks for APT28, which the store does not have
C25_Witness ==
    /\ returned.call = "set_persona"
    /\ returned.name = "APT28"
    /\ "raised" \in DOMAIN returned
    /\ persona # None
    /\ persona.name = "APT29"
    /\ Caching(persona_library)
    /\ DOMAIN persona_library._personas_cache = {"APT29"}


(***************************************************************************)
(* the generator on groups with and without their fields                   *)
(***************************************************************************)
\* the dict with the key, for each of the values, and the dict without it
Optional(key, values) == {[k \in {} |-> None]} \cup {(key :> value) : value \in values}

GeneratorGroups ==
    {[type |-> "intrusion-set"] @@ id @@ name @@ description @@ aliases :
        id \in Optional("id", {"intrusion-set--1"}),
        name \in Optional("name", {"APT29"}),
        description \in Optional("description", {"", StateSponsored, CriminalGang}),
        aliases \in Optional("aliases", {<<>>, <<"The Dukes", "Cozy Bear">>})}

\* what the group of the bundle may use, and the relationships that say so
GeneratorPool ==
    <<PatternLink,
      [type |-> "attack-pattern", id |-> "attack-pattern--3",
       name |-> "Exfiltration Over C2 Channel",
       kill_chain_phases |-> KillChain(<<"exfiltration">>),
       external_references |-> <<MitreRef("T1041")>>],
      [type |-> "attack-pattern", id |-> "attack-pattern--4",
       name |-> "Data Encrypted for Impact",
       kill_chain_phases |-> KillChain(<<"impact">>),
       external_references |-> <<MitreRef("T1486")>>],
      [type |-> "attack-pattern", id |-> "attack-pattern--5",
       name |-> "Obfuscated Files or Information",
       kill_chain_phases |-> KillChain(<<"defense-evasion">>),
       external_references |-> <<MitreRef("T1027")>>],
      MalwareCobaltStrike,
      [type |-> "tool", id |-> "tool--1", name |-> "Custom Loader"],
      Uses("relationship--1", "intrusion-set--1", "attack-pattern--1"),
      Uses("relationship--2", "intrusion-set--1", "malware--1"),
      Uses("relationship--6", "intrusion-set--1", "attack-pattern--3"),
      Uses("relationship--7", "intrusion-set--1", "attack-pattern--4"),
      Uses("relationship--8", "intrusion-set--1", "attack-pattern--5"),
      Uses("relationship--9", "intrusion-set--1", "tool--1")>>

\* some of the techniques and tools, and all the relationships
GeneratorBundles ==
    {BundleOf(GeneratorPool,
              used \cup {obj \in Range(GeneratorPool) : obj.type = "relationship"}) :
        used \in SUBSET {obj \in Range(GeneratorPool) : obj.type # "relationship"}}

InitGenerator ==
    /\ persona_library = None
    /\ \E bundle \in GeneratorBundles : mitre_client = MITREStixClient(bundle)
    /\ persona = None
    /\ attack_history = <<>>
    /\ current_campaign = NullRef
    /\ heap = <<>>
    /\ pc = "generator"
    /\ idx = 0
    /\ auto_execute = FALSE
    /\ returned = [call |-> "__init__"]
    /\ clock = 0
    /\ executed = <<>>
    /\ stealth_calls = <<>>
    /\ \E group \in GeneratorGroups : unit = [group |-> group]

\* PersonaGenerator(mitre_client).generate_persona_config(group)
GeneratePersonaConfig ==
    /\ pc = "generator"
    /\ returned' = [call |-> "generate_persona_config"]
                   @@ generate_persona_config(mitre_client, unit.group)
    /\ UNCHANGED <<persona_library, mitre_client, persona, attack_history,
                   current_campaign, heap, pc, idx, auto_execute, clock, executed,
                   stealth_calls, unit>>

NextGenerator == GeneratePersonaConfig

SpecGenerator == InitGenerator /\ [][NextGenerator]_vars

\* C26: generate_persona_config raises for no group and no set of
\* techniques and software, also when the group lacks its description, its
\* aliases or other fields, and the target industries, target regions and
\* motivations of the configuration it returns are not empty
C26_NeverRaises ==
    returned.call = "generate_persona_config" =>
        /\ "raised" \notin DOMAIN returned
        /\ "config" \in DOMAIN returned
        /\ returned.config.target_industries # <<>>
        /\ returned.config.target_regions # <<>>
        /\ returned.config.motivations # {}


(***************************************************************************)
(* The auto-executed campaign: number of results, detection events         *)
(***************************************************************************)
\* the positions, among the executed phases, of the alternatives of planned
\* phase k
AlternativesOf(k) ==
    {i \in 1..Len(executed) : executed[i].plan_index = k /\ executed[i].alternative}

\* C27: in an auto-executed campaign with a plan of n phases there are at
\* most 2*n phase results, and at least n once the campaign is completed:
\* each planned phase gets at most one alternative phase, which follows a
\* failed or blocked planned phase, and whatever the result of an
\* alternative phase the next result is that of the next planned phase
C27_AtMostOneAlternative ==
    AutoCampaign =>
        LET n == Len(Current.attack_plan)
            phases == Current.phases
        IN /\ Len(phases) = Len(executed)
           /\ Len(phases) <= 2 * n
           /\ Len(phases) >= Handled
           /\ Current.status = "completed" => Len(phases) >= n
           /\ \A k \in 1..n : Cardinality(AlternativesOf(k)) <= 1
           /\ \A i \in 1..Len(executed) :
                executed[i].alternative =>
                    /\ i > 1
                    /\ ~executed[i - 1].alternative
                    /\ phases[i - 1].status \in {BLOCKED, FAILED}
                    /\ i < Len(executed) =>
                        /\ ~executed[i + 1].alternative
                        /\ executed[i + 1].plan_index = executed[i].plan_index + 1
                    /\ i = Len(executed) => pc # "retry"

\* a completed campaign whose first phase got an alternative that failed or
\* was blocked in its turn, followed by the second planned phase
C27_Witness ==
    /\ AutoCampaign
    /\ Current.status = "completed"
    /\ Len(Current.attack_plan) >= 2
    /\ Len(executed) >= 3
    /\ executed[2].alternative
    /\ Current.phases[2].status \in {BLOCKED, FAILED}
    /\ executed[3].plan_index = 2
    /\ Len(Current.phases) > Len(Current.attack_plan)

\* the phase results with detected true, in order
DetectedResults(phases) == SelectSeq(phases, LAMBDA ph : ph.detected)

\* C28: in every state of an auto-executed campaign there are as many
\* detection events as phase results with detected true, the j-th event is
\* that of the j-th detected phase result (its tactic and technique), and
\* every phase result with status Blocked has detected true
C28_DetectionEventsMatch ==
    AutoCampaign =>
        LET seen == DetectedResults(Current.phases)
            events == Current.detection_events
        IN /\ Len(events) = Len(seen)
           /\ \A j \in 1..Len(events) :
                /\ events[j].phase = seen[j].tactic
                /\ events[j].technique = seen[j].technique_id
           /\ \A i \in 1..Len(Current.phases) :
                Current.phases[i].status = BLOCKED => Current.phases[i].detected

\* a detected and blocked phase, an undetected alternative, then a detected
\* phase of another tactic that was not blocked
C28_Witness ==
    /\ AutoCampaign
    /\ Len(Current.phases) >= 3
    /\ Current.phases[1].detected
    /\ Current.phases[1].status = BLOCKED
    /\ ~Current.phases[2].detected
    /\ Current.phases[3].detected
    /\ Current.phases[3].status # BLOCKED
    /\ Current.phases[3].tactic # Current.phases[1].tactic
    /\ Len(Current.detection_events) = 2


(***************************************************************************)
(* mitre_stix_client.py: refresh_cache and the queries of the client       *)
(***************************************************************************)
\* download_latest when the download succeeds: the cache file is replaced
\* by what was downloaded
download_latest(client, downloaded) == [client EXCEPT !.cache_file = downloaded]

\* refresh_cache when the download succeeds: download_latest(), then
\* _parse_stix_data()
refresh_cache(client, downloaded) ==
    _parse_stix_data(download_latest(client, downloaded))

\* the attack-pattern has the mitre-attack external id
HasTechniqueId(pattern, technique_id) ==
    \E i \in 1..Len(GetList(pattern, "external_references")) :
        /\ Get(pattern.external_references[i], "source_name") = "mitre-attack"
        /\ Get(pattern.external_references[i], "external_id") = technique_id

\* get_technique_by_id: a copy, with the key external_id, of the first
\* attack-pattern that has the id, or None
get_technique_by_id(client, technique_id) ==
    LET attack_patterns == GetList(client._objects_by_type, "attack-pattern")
        hits == SelectSeq(attack_patterns,
                          LAMBDA pattern : HasTechniqueId(pattern, technique_id))
    IN IF hits = <<>> THEN None
       ELSE [external_id |-> technique_id] @@ hits[1]

\* dict(group) with mitre_id taken from the first mitre-attack reference
WithMitreId(group) ==
    LET refs == SelectSeq(GetList(group, "external_references"),
                          LAMBDA ref : Get(ref, "source_name") = "mitre-attack")
    IN IF refs = <<>> THEN group
       ELSE [mitre_id |-> Get(refs[1], "external_id")] @@ group

\* get_all_groups: the intrusion-sets in bucket order
get_all_groups(client) ==
    LET groups == GetList(client._objects_by_type, "intrusion-set")
    IN [i \in 1..Len(groups) |-> WithMitreId(groups[i])]

\* get_tactics: the mitre-attack tactics of the attack-patterns, sorted
get_tactics(client) ==
    SortedTactics(
        {Get(phase, "phase_name") :
            phase \in {ph \in UNION {Range(GetList(pattern, "kill_chain_phases")) :
                            pattern \in Range(GetList(client._objects_by_type,
                                                      "attack-pattern"))} :
                        Get(ph, "kill_chain_name") = "mitre-attack"}})

\* a JSON file holding {}
EmptyDict == [key \in {} |-> None]

\* what the cache file holds at construction and what a download brings
RefreshPool ==
    <<GroupAPT29, PatternLink, MalwareCobaltStrike,
      Uses("relationship--1", "intrusion-set--1", "attack-pattern--1"),
      Uses("relationship--2", "intrusion-set--1", "malware--1")>>

RefreshBundles ==
    {BundleOf(RefreshPool, objects) : objects \in SUBSET Range(RefreshPool)}
    \cup {EmptyDict}

TechniqueIds == {"T1566.002", "T0000"}

\* a client constructed over a cache file; unit notes the bundle of the
\* last download that succeeded
InitRefresh ==
    /\ \E bundle \in RefreshBundles :
        /\ mitre_client = MITREStixClient(bundle)
        /\ unit = [refreshed |-> FALSE, downloaded |-> bundle]
    /\ persona_library = None
    /\ persona = None
    /\ attack_history = <<>>
    /\ current_campaign = NullRef
    /\ heap = <<>>
    /\ pc = "store"
    /\ idx = 0
    /\ auto_execute = TRUE
    /\ returned = [call |-> "__init__"]
    /\ clock = 0
    /\ executed = <<>>
    /\ stealth_calls = <<>>

\* client.refresh_cache(), the download bringing the bundle
RefreshCache(downloaded) ==
    /\ pc = "store"
    /\ mitre_client' = refresh_cache(mitre_client, downloaded)
    /\ returned' = [call |-> "refresh_cache"]
    /\ unit' = [refreshed |-> TRUE, downloaded |-> downloaded]
    /\ UNCHANGED <<persona_library, persona, attack_history, current_campaign, heap, pc, idx,
                   auto_execute, clock, executed, stealth_calls>>

\* client.refresh_cache(), the download failing with a RequestException:
\* download_latest raises RuntimeError before the cache file is replaced
RefreshCacheFails ==
    /\ pc = "store"
    /\ returned' = [call |-> "refresh_cache"] @@ Raised("RuntimeError")
    /\ UNCHANGED <<persona_library, mitre_client, persona, attack_history, current_campaign, heap,
                   pc, idx, auto_execute, clock, executed, stealth_calls, unit>>

\* client.get_technique_by_id(technique_id)
GetTechniqueById(technique_id) ==
    /\ pc = "store"
    /\ returned' = [call |-> "get_technique_by_id", technique_id |-> technique_id,
                    technique |-> get_technique_by_id(mitre_client, technique_id)]
    /\ UNCHANGED <<persona_library, mitre_client, persona, attack_history, current_campaign, heap,
                   pc, idx, auto_execute, clock, executed, stealth_calls, unit>>

\* client.get_all_groups()
GetAllGroups ==
    /\ pc = "store"
    /\ returned' = [call |-> "get_all_groups", groups |-> get_all_groups(mitre_client)]
    /\ UNCHANGED <<persona_library, mitre_client, persona, attack_history, current_campaign, heap,
                   pc, idx, auto_execute, clock, executed, stealth_calls, unit>>

\* client.get_tactics()
GetTactics ==
    /\ pc = "store"
    /\ returned' = [call |-> "get_tactics", tactics |-> get_tactics(mitre_client)]
    /\ UNCHANGED <<persona_library, mitre_client, persona, attack_history, current_campaign, heap,
                   pc, idx, auto_execute, clock, executed, stealth_calls, unit>>

NextRefresh ==
    \/ \E downloaded \in RefreshBundles : RefreshCache(downloaded)
    \/ RefreshCacheFails
    \/ \E name \in GroupNames : GetGroupByName(name)
    \/ \E group_id \in GroupIds : GetTechniquesForGroup(group_id)
    \/ \E group_id \in GroupIds : GetSoftwareForGroup(group_id)
    \/ \E technique_id \in TechniqueIds : GetTechniqueById(technique_id)
    \/ GetAllGroups
    \/ GetTactics

SpecRefresh == InitRefresh /\ [][NextRefresh]_vars

\* a client constructed over the bundle of the last download that succeeded
Downloaded == MITREStixClient(unit.downloaded)

\* C29: once a refresh_cache() has completed, every query is answered from
\* the bundle of the last completed refresh: its answer is the answer of a
\* client that holds that bundle and no other
C29_AnsweredFromDownload ==
    unit.refreshed =>
        /\ returned.call = "get_group_by_name" =>
                returned.group = get_group_by_name(Downloaded, returned.name)
        /\ returned.call = "get_techniques_for_group" =>
                returned.techniques
                    = get_techniques_for_group(Downloaded, returned.group_id)
        /\ returned.call = "get_software_for_group" =>
                returned.software
                    = get_software_for_group(Downloaded, returned.group_id)
        /\ returned.call = "get_technique_by_id" =>
                returned.technique
                    = get_technique_by_id(Downloaded, returned.technique_id)
        /\ returned.call = "get_all_groups" =>
                returned.groups = get_all_groups(Downloaded)
        /\ returned.call = "get_tactics" =>
                returned.tactics = get_tactics(Downloaded)


(***************************************************************************)
(* Campaign ids                                                            *)
(***************************************************************************)
\* the positions in attack_history of the campaigns with the id
Holders(campaign_id) ==
    {i \in 1..Len(attack_history) : heap[attack_history[i]].id = campaign_id}

\* C30: any two campaigns of attack_history have different ids, so
\* generate_attack_report(id) reports the campaign of the history that has
\* the id (its persona, target, techniques and figures), and for an id no
\* campaign of the history has it returns the error value
C30_CampaignIdsIdentify ==
    /\ \A i, j \in 1..Len(attack_history) :
            i # j => heap[attack_history[i]].id # heap[attack_history[j]].id
    /\ \A now \in 0..MaxClock :
        LET campaign_id == CampaignId(now)
            report == generate_attack_report(campaign_id)
        IN IF Holders(campaign_id) = {}
           THEN report = [error |-> "No campaign found"]
           ELSE \A i \in Holders(campaign_id) :
                    LET campaign == heap[attack_history[i]] IN
                    /\ report.campaign_id = campaign_id
                    /\ report.persona = campaign.persona.name
                    /\ report.target = campaign.target
                    /\ report.techniques_used = campaign.techniques_used
                    /\ report.risk_score = campaign.risk_score
                    /\ report.data_exfiltrated_mb = campaign.data_exfiltrated

====
